---- MODULE Spec2Model ----
(***************************************************************************)
(* A model of the simple-git terminal client: the application shell        *)
(* (AppModel), the Status, Diff, Branches, Stashes and Stash-Diff views    *)
(* and the deferred commands they issue.  Every Update handler is a        *)
(* value-to-value operator, as in the Go source, returning the new model   *)
(* and the command                                                         *)
(* it issues; the actions of the state machine are the events the          *)
(* bubbletea loop dispatches: a key, a tick, a resize, a command result.   *)
(***************************************************************************)
EXTENDS Integers, Sequences, FiniteSets, TLC

VARIABLES
    mode,       \* AppModel.mode: the active view
    status,     \* AppModel.status: the StatusModel
    diff,       \* AppModel.diff: the DiffModel
    branches,   \* AppModel.branches: the BranchesModel
    stashes,    \* AppModel.stashes: the StashesModel, with its StashDiffModel
    log,        \* AppModel.log: the stored size of the LogModel
    currentFiles, \* AppModel.currentFiles: the filter handed to the diff view
    size,       \* AppModel.width / height
    pending,    \* deferred commands issued and not yet completed
    ticks,      \* tick timers armed and not yet fired
    quit,       \* tea.Quit has been issued
    output,     \* the text git printed, or a patch made for git apply
    parsed      \* what parseDiff made of output, once it has run

appVars ==
    <<mode, status, diff, branches, stashes, log, currentFiles, size, pending, ticks, quit>>
vars == <<mode, status, diff, branches, stashes, log, currentFiles, size, pending, ticks, quit,
          output, parsed>>

----------------------------------------------------------------------------
(* Bounds of the exploration *)

\* commands in flight at once, where commands race
MaxPending == 2
\* commands in flight at once, elsewhere
MaxInFlight == 1
\* lines of a diff text
MaxLines == 3
\* hunks of a fetched diff, where their order is looked at
MaxHunks == 3

----------------------------------------------------------------------------
(* Keys *)

Keys ==
    [Up |-> "k", Down |-> "j", Left |-> "h", Right |-> "l", Top |-> "g",
     Bottom |-> "G", Select |-> "h", Back |-> "h", Quit |-> "q",
     Stage |-> "a", StageAll |-> "A", Unstage |-> "u", UnstageAll |-> "U",
     Discard |-> "d", Commit |-> "c", CommitEdit |-> "C", Push |-> "p",
     Stash |-> "s", StashAll |-> "S",
     FileDiff |-> "l", AllDiffs |-> "i", FullDiff |-> "f", Branches |-> "b",
     Stashes |-> "e", Log |-> "o",
     Visual |-> "v", Help |-> "?", VerboseHelp |-> "/", NewBranch |-> "n",
     Delete |-> "d"]

LowerLetters ==
    {"a", "b", "c", "d", "e", "f", "g", "h", "i", "j", "k", "l", "m", "n",
     "o", "p", "q", "r", "s", "t", "u", "v", "w", "x", "y", "z"}

UpperLetters ==
    {"A", "B", "C", "D", "E", "F", "G", "H", "I", "J", "K", "L", "M", "N",
     "O", "P", "Q", "R", "S", "T", "U", "V", "W", "X", "Y", "Z"}

\* keys whose msg.String() is one printable character
Printable == LowerLetters \cup UpperLetters \cup {" ", "?", "/"}

\* len(key) == 1 && key[0] >= 'a' && key[0] <= 'z'
IsLowerLetter(key) == key \in LowerLetters

\* the word "yes" as the characters typed
Yes == <<"y", "e", "s">>

Front(s) == SubSeq(s, 1, Len(s) - 1)

Min(a, b) == IF a < b THEN a ELSE b
Max(a, b) == IF a > b THEN a ELSE b

\* textinput.Model.Update on a key: a printable key is appended to the value,
\* backspace removes the last character, other keys leave the value alone
TextInputUpdate(value, key) ==
    IF key \in Printable THEN Append(value, key)
    ELSE IF key = "backspace" /\ Len(value) > 0 THEN Front(value)
    ELSE value

----------------------------------------------------------------------------
(* Commands and messages *)

NoErr == ""
NoCmd == [kind |-> "none", ops |-> <<>>, arg |-> <<>>, by |-> ""]
Cmd(kind, ops, arg, by) == [kind |-> kind, ops |-> ops, arg |-> arg, by |-> by]
\* one git call of a command: the call, its path, the section of the item or
\* hunk it is made for, and (hunk patches) the path of the FileDiff whose header is used
Op(op, path, section) == [op |-> op, path |-> path, section |-> section, file |-> ""]
HunkOp(op, path, section, file) == [op |-> op, path |-> path, section |-> section, file |-> file]

\* refreshStatus, as issued by `by`
RefreshStatusCmd(by) == Cmd("refreshStatus", <<>>, <<>>, by)

\* the deferred commands that change the repository
MutatingKinds ==
    {"toggleStage", "stageFiles", "unstageFiles", "stageAll", "unstageAll",
     "discard", "stash", "commit", "push", "pushSetUpstream",
     "toggleHunk", "stageHunk", "unstageHunk", "discardHunk",
     "checkoutBranch", "createBranch", "deleteBranch", "forceDeleteBranch",
     "applyStash", "popStash", "dropStash"}

----------------------------------------------------------------------------
(* Status view *)

confirmNone == "confirmNone"
confirmDiscard == "confirmDiscard"
confirmPush == "confirmPush"
confirmPushNew == "confirmPushNew"
confirmStash == "confirmStash"

stashNone == "stashNone"
stashFiles == "stashFiles"
stashAll == "stashAll"

NoStatus == [Staged |-> <<>>, Unstaged |-> <<>>, Untracked |-> <<>>, nil |-> TRUE]
NoBranchStatus == [Name |-> "", Remote |-> "", Ahead |-> 0]

NewStatusModelWithHelp(showHelp) ==
    [items |-> <<>>, cursor |-> 0, scrollOffset |-> 0, selected |-> {},
     visualMode |-> FALSE, visualStart |-> 0,
     status |-> NoStatus, branchStatus |-> NoBranchStatus,
     showHelp |-> FALSE, showVerboseHelp |-> showHelp,
     confirmMode |-> confirmNone, confirmInput |-> <<>>,
     pendingPushRemote |-> "",
     stashMode |-> stashNone, stashInput |-> <<>>,
     pendingStashMode |-> stashNone, pendingStashMessage |-> <<>>,
     commitMode |-> FALSE, commitInput |-> <<>>,
     quitting |-> FALSE, lastKey |-> "", err |-> NoErr,
     width |-> 0, height |-> 0]

\* isBlocking that does not count a selection or visual mode
isBlockingSubModes(m) ==
    \/ m.confirmMode # confirmNone
    \/ m.commitMode
    \/ m.stashMode # stashNone
    \/ m.showHelp

isBlocking(m) ==
    \/ m.confirmMode # confirmNone
    \/ m.commitMode
    \/ m.stashMode # stashNone
    \/ m.showHelp
    \/ m.visualMode
    \/ Cardinality(m.selected) > 0

\* updateVisualSelection that adds the range to the earlier selection
updateVisualSelectionMerged(m) ==
    [m EXCEPT !.selected = m.selected \cup
        {i \in Min(m.visualStart, m.cursor)..Max(m.visualStart, m.cursor) : TRUE}]

\* the selection as updateVisualSelection rebuilds it
updateVisualSelection(m) ==
    LET start == IF m.visualStart > m.cursor THEN m.cursor ELSE m.visualStart
        end   == IF m.visualStart > m.cursor THEN m.visualStart ELSE m.cursor
    IN [m EXCEPT !.selected = {i \in start..end : TRUE}]

StatusVisibleLines(m) ==
    LET reserved == IF m.showVerboseHelp THEN 15 ELSE 12
    IN IF m.height <= reserved THEN 10 ELSE m.height - reserved

ensureCursorVisible(m) ==
    LET visible == StatusVisibleLines(m)
        s1 == IF m.cursor < m.scrollOffset THEN m.cursor ELSE m.scrollOffset
        s2 == IF m.cursor >= s1 + visible THEN m.cursor - visible + 1 ELSE s1
        maxOffset == Max(Len(m.items) - visible, 0)
        s3 == IF s2 > maxOffset THEN maxOffset ELSE s2
        s4 == IF s3 < 0 THEN 0 ELSE s3
    IN IF visible <= 0 THEN m ELSE [m EXCEPT !.scrollOffset = s4]

\* the loop of getSelectedItems over the item indices 0 .. len(items)-1,
\* from index i on: the selected items in index order
RECURSIVE SelectedFrom(_, _)
SelectedFrom(m, i) ==
    IF i >= Len(m.items) THEN <<>>
    ELSE (IF i \in m.selected THEN <<m.items[i + 1]>> ELSE <<>>)
         \o SelectedFrom(m, i + 1)

\* getSelectedItems that returns the selected items only
getSelectedItemsNoCursor(m) ==
    IF Cardinality(m.selected) > 0 THEN SelectedFrom(m, 0)
    ELSE IF m.cursor < Len(m.items) THEN <<m.items[m.cursor + 1]>>
    ELSE <<>>

getSelectedItems(m) ==
    IF Cardinality(m.selected) > 0
    THEN LET cursorIncluded == m.cursor \in m.selected /\ m.cursor < Len(m.items)
         IN SelectedFrom(m, 0)
            \o (IF ~cursorIncluded /\ m.cursor < Len(m.items)
                THEN <<m.items[m.cursor + 1]>> ELSE <<>>)
    ELSE IF m.cursor < Len(m.items) THEN <<m.items[m.cursor + 1]>>
    ELSE <<>>

Item(path, section) == [Path |-> path, Section |-> section]

buildItems(st) ==
    IF st.nil THEN <<>>
    ELSE [i \in 1..Len(st.Staged) |-> Item(st.Staged[i], "staged")]
         \o [i \in 1..Len(st.Unstaged) |-> Item(st.Unstaged[i], "unstaged")]
         \o [i \in 1..Len(st.Untracked) |-> Item(st.Untracked[i], "untracked")]

\* a toggle that stages whatever the section
ToggleOpStageOnly(item) == Op("StageFile", item.Path, item.Section)

\* the git call toggleStage makes for one item
ToggleOp(item) ==
    IF item.Section = "staged" THEN Op("UnstageFile", item.Path, item.Section)
    ELSE Op("StageFile", item.Path, item.Section)

\* a doDiscard that discards the working-tree file of an item of any section
DiscardOpCascade(item) ==
    IF item.Section = "untracked" THEN Op("DiscardUntracked", item.Path, item.Section)
    ELSE Op("DiscardFile", item.Path, item.Section)

\* the git call doDiscard makes for one item
DiscardOp(item) ==
    IF item.Section = "staged" THEN Op("UnstageFile", item.Path, item.Section)
    ELSE IF item.Section = "unstaged" THEN Op("DiscardFile", item.Path, item.Section)
    ELSE Op("DiscardUntracked", item.Path, item.Section)

toggleStage(m) ==
    LET items == getSelectedItems(m)
    IN IF Len(items) = 0 THEN NoCmd
       ELSE Cmd("toggleStage", [i \in 1..Len(items) |-> ToggleOp(items[i])], <<>>, "key")

stageFiles(m) ==
    LET items == getSelectedItems(m)
        todo == SelectSeq(items, LAMBDA it : it.Section \in {"unstaged", "untracked"})
    IN IF Len(items) = 0 THEN NoCmd
       ELSE Cmd("stageFiles", [i \in 1..Len(todo) |-> Op("StageFile", todo[i].Path, todo[i].Section)], <<>>, "key")

unstageFiles(m) ==
    LET items == getSelectedItems(m)
        todo == SelectSeq(items, LAMBDA it : it.Section = "staged")
    IN IF Len(items) = 0 THEN NoCmd
       ELSE Cmd("unstageFiles", [i \in 1..Len(todo) |-> Op("UnstageFile", todo[i].Path, todo[i].Section)], <<>>, "key")

stageAll(m) == Cmd("stageAll", <<Op("StageAll", "", "")>>, <<>>, "key")

unstageAll(m) == Cmd("unstageAll", <<Op("UnstageAll", "", "")>>, <<>>, "key")

doDiscard(m) ==
    LET items == getSelectedItems(m)
    IN IF Len(items) = 0 THEN NoCmd
       ELSE Cmd("discard", [i \in 1..Len(items) |-> DiscardOp(items[i])], <<>>, "key")

doPush(m) == Cmd("push", <<Op("Push", "", "")>>, <<>>, "key")

doPushSetUpstream(m, remote) ==
    Cmd("pushSetUpstream", <<Op("PushSetUpstream", remote, "")>>, <<>>, "key")

doCommit(m, message) == Cmd("commit", <<Op("Commit", "", "")>>, message, "key")

QuitCmd == Cmd("quit", <<>>, <<>>, "key")

\* runGitCommit: the editor takes the terminal and the program quits after it
runGitCommit == Cmd("commitEdit", <<>>, <<>>, "key")

doStash(m, smode, message) ==
    IF smode = stashAll
    THEN Cmd("stash", <<Op("StashAll", "", "")>>, message, "key")
    ELSE LET items == getSelectedItems(m)
         IN IF Len(items) = 0 THEN NoCmd
            ELSE Cmd("stash", [i \in 1..Len(items) |-> Op("StashFiles", items[i].Path, items[i].Section)],
                     message, "key")

\* what a handler returns: the new model and the command it issues
R(m, cmd) == [m |-> m, cmd |-> cmd]

\* git.GetRemotes() outcomes
Remotes(err, list) == [err |-> err, list |-> list]

\* a push confirmation that takes n for a yes as well
StatusConfirmKeyPushOnNo(m, key) ==
    IF m.confirmMode \in {confirmDiscard, confirmStash}
    THEN IF key = "backspace"
         THEN R(IF Len(m.confirmInput) > 0
                THEN [m EXCEPT !.confirmInput = Front(m.confirmInput)] ELSE m, NoCmd)
         ELSE IF key = "enter"
         THEN IF m.confirmInput = Yes
              THEN LET m1 == [m EXCEPT !.confirmMode = confirmNone, !.confirmInput = <<>>]
                   IN IF m.confirmMode = confirmDiscard
                      THEN R(m1, doDiscard(m1))
                      ELSE LET m2 == [m1 EXCEPT !.pendingStashMode = stashNone,
                                                !.pendingStashMessage = <<>>]
                           IN R(m2, doStash(m2, m.pendingStashMode, m.pendingStashMessage))
              ELSE R(m, NoCmd)
         ELSE IF key = "esc"
         THEN R([m EXCEPT !.confirmMode = confirmNone, !.confirmInput = <<>>,
                          !.pendingStashMode = stashNone, !.pendingStashMessage = <<>>],
                NoCmd)
         ELSE R(IF IsLowerLetter(key)
                THEN [m EXCEPT !.confirmInput = Append(m.confirmInput, key)] ELSE m, NoCmd)
    ELSE IF key \in {"y", "Y", "n", "N"}
         THEN LET m1 == [m EXCEPT !.confirmMode = confirmNone, !.pendingPushRemote = ""]
              IN IF m.confirmMode = confirmPushNew
                 THEN R(m1, doPushSetUpstream(m1, m.pendingPushRemote))
                 ELSE R(m1, doPush(m1))
         ELSE IF key = "esc"
         THEN R([m EXCEPT !.confirmMode = confirmNone, !.pendingPushRemote = ""], NoCmd)
         ELSE R(m, NoCmd)

\* StatusModel.Update, tea.KeyMsg, confirm mode
StatusConfirmKey(m, key) ==
    IF m.confirmMode \in {confirmDiscard, confirmStash}
    THEN IF key = "backspace"
         THEN R(IF Len(m.confirmInput) > 0
                THEN [m EXCEPT !.confirmInput = Front(m.confirmInput)] ELSE m, NoCmd)
         ELSE IF key = "enter"
         THEN IF m.confirmInput = Yes
              THEN LET m1 == [m EXCEPT !.confirmMode = confirmNone, !.confirmInput = <<>>]
                   IN IF m.confirmMode = confirmDiscard
                      THEN R(m1, doDiscard(m1))
                      ELSE LET m2 == [m1 EXCEPT !.pendingStashMode = stashNone,
                                                !.pendingStashMessage = <<>>]
                           IN R(m2, doStash(m2, m.pendingStashMode, m.pendingStashMessage))
              ELSE R(m, NoCmd)
         ELSE IF key = "esc"
         THEN R([m EXCEPT !.confirmMode = confirmNone, !.confirmInput = <<>>,
                          !.pendingStashMode = stashNone, !.pendingStashMessage = <<>>],
                NoCmd)
         ELSE R(IF IsLowerLetter(key)
                THEN [m EXCEPT !.confirmInput = Append(m.confirmInput, key)] ELSE m, NoCmd)
    ELSE IF key \in {"y", "Y"}
         THEN LET m1 == [m EXCEPT !.confirmMode = confirmNone, !.pendingPushRemote = ""]
              IN IF m.confirmMode = confirmPushNew
                 THEN R(m1, doPushSetUpstream(m1, m.pendingPushRemote))
                 ELSE R(m1, doPush(m1))
         ELSE IF key \in {"n", "N", "esc"}
         THEN R([m EXCEPT !.confirmMode = confirmNone, !.pendingPushRemote = ""], NoCmd)
         ELSE R(m, NoCmd)

\* StatusModel.Update, tea.KeyMsg, stash input mode
StatusStashInputKey(m, key) ==
    IF key = "enter"
    THEN R([m EXCEPT !.pendingStashMode = m.stashMode,
                     !.pendingStashMessage = m.stashInput,
                     !.stashMode = stashNone, !.stashInput = <<>>,
                     !.confirmMode = confirmStash], NoCmd)
    ELSE IF key = "esc"
    THEN R([m EXCEPT !.stashMode = stashNone, !.stashInput = <<>>], NoCmd)
    ELSE R([m EXCEPT !.stashInput = TextInputUpdate(m.stashInput, key)], NoCmd)

\* StatusModel.Update, tea.KeyMsg, commit input mode
StatusCommitInputKey(m, key) ==
    IF key = "enter"
    THEN LET m1 == [m EXCEPT !.commitMode = FALSE, !.commitInput = <<>>]
         IN IF m.commitInput # <<>> THEN R(m1, doCommit(m1, m.commitInput))
            ELSE R(m1, NoCmd)
    ELSE IF key = "esc"
    THEN R([m EXCEPT !.commitMode = FALSE, !.commitInput = <<>>], NoCmd)
    ELSE R([m EXCEPT !.commitInput = TextInputUpdate(m.commitInput, key)], NoCmd)

\* a cursor move of the navigation switch: the move, then ensureCursorVisible,
\* then updateVisualSelection in visual mode
StatusMoveTo(m, c) ==
    LET m1 == ensureCursorVisible([m EXCEPT !.cursor = c])
    IN IF m1.visualMode THEN updateVisualSelection(m1) ELSE m1

\* a visual toggle that keeps the selection when it leaves visual mode
StatusVisualKeyKeepsSelection(m, key) ==
    IF m.visualMode /\ key = Keys.Visual
    THEN [m EXCEPT !.visualMode = FALSE]
    ELSE IF ~m.visualMode
    THEN [m EXCEPT !.visualMode = TRUE, !.visualStart = m.cursor, !.selected = {m.cursor}]
    ELSE m

\* the Keys.Visual / "V" case
StatusVisualKey(m, key) ==
    IF m.visualMode /\ key = Keys.Visual
    THEN [m EXCEPT !.visualMode = FALSE, !.selected = {}]
    ELSE IF ~m.visualMode
    THEN [m EXCEPT !.visualMode = TRUE, !.visualStart = m.cursor, !.selected = {m.cursor}]
    ELSE m

\* the Keys.Select / "left" case
StatusSelectKey(m) ==
    IF Len(m.items) > 0 /\ ~m.visualMode
    THEN IF m.cursor \in m.selected
         THEN [m EXCEPT !.selected = m.selected \ {m.cursor}]
         ELSE [m EXCEPT !.selected = m.selected \cup {m.cursor}]
    ELSE m

\* the Keys.Discard case
StatusDiscardKey(m) ==
    IF Len(m.items) > 0 /\ (Cardinality(m.selected) > 0 \/ ~m.visualMode)
    THEN [m EXCEPT !.confirmMode = confirmDiscard]
    ELSE m

\* a push key that asks for no confirmation when the branch is ahead
StatusPushKeyUnconfirmed(m, remotes) ==
    IF m.branchStatus.Remote = ""
    THEN IF remotes.err THEN R([m EXCEPT !.err = "GetRemotes failed"], NoCmd)
         ELSE IF Len(remotes.list) = 0
         THEN R([m EXCEPT !.err = "no remotes configured"], NoCmd)
         ELSE R([m EXCEPT !.pendingPushRemote = remotes.list[1],
                          !.confirmMode = confirmPushNew], NoCmd)
    ELSE R(m, doPush(m))

\* the Keys.Push case
StatusPushKey(m, remotes) ==
    IF m.branchStatus.Remote # "" /\ m.branchStatus.Ahead > 0
    THEN R([m EXCEPT !.confirmMode = confirmPush], NoCmd)
    ELSE IF m.branchStatus.Remote = ""
    THEN IF remotes.err THEN R([m EXCEPT !.err = "GetRemotes failed"], NoCmd)
         ELSE IF Len(remotes.list) = 0
         THEN R([m EXCEPT !.err = "no remotes configured"], NoCmd)
         ELSE R([m EXCEPT !.pendingPushRemote = remotes.list[1],
                          !.confirmMode = confirmPushNew], NoCmd)
    ELSE R(m, doPush(m))

\* StatusModel.Update, tea.KeyMsg, the navigation switch
StatusNavKey(m, key, remotes) ==
    IF key = Keys.Quit
    THEN IF m.visualMode
         THEN R([m EXCEPT !.visualMode = FALSE, !.selected = {}], NoCmd)
         ELSE R([m EXCEPT !.quitting = TRUE], QuitCmd)
    ELSE IF key = "esc"
    THEN IF m.visualMode \/ Cardinality(m.selected) > 0
         THEN R([m EXCEPT !.visualMode = FALSE, !.selected = {}], NoCmd)
         ELSE R([m EXCEPT !.quitting = TRUE], QuitCmd)
    ELSE IF key = Keys.Help THEN R([m EXCEPT !.showHelp = TRUE], NoCmd)
    ELSE IF key = Keys.VerboseHelp
    THEN R([m EXCEPT !.showVerboseHelp = ~m.showVerboseHelp], NoCmd)
    ELSE IF key = Keys.Visual \/ key = "V" THEN R(StatusVisualKey(m, key), NoCmd)
    ELSE IF key = Keys.Down \/ key = "down"
    THEN R(IF Len(m.items) > 0
           THEN StatusMoveTo(m, Min(m.cursor + 1, Len(m.items) - 1)) ELSE m, NoCmd)
    ELSE IF key = Keys.Up \/ key = "up"
    THEN R(IF Len(m.items) > 0 THEN StatusMoveTo(m, Max(m.cursor - 1, 0)) ELSE m, NoCmd)
    ELSE IF key = Keys.Bottom
    THEN R(IF Len(m.items) > 0 THEN StatusMoveTo(m, Len(m.items) - 1) ELSE m, NoCmd)
    ELSE IF key = Keys.Select \/ key = "left" THEN R(StatusSelectKey(m), NoCmd)
    ELSE IF key = " " THEN R(m, toggleStage(m))
    ELSE IF key = Keys.Stage THEN R(m, stageFiles(m))
    ELSE IF key = Keys.StageAll THEN R(m, stageAll(m))
    ELSE IF key = Keys.Unstage THEN R(m, unstageFiles(m))
    ELSE IF key = Keys.UnstageAll THEN R(m, unstageAll(m))
    ELSE IF key = Keys.Discard THEN R(StatusDiscardKey(m), NoCmd)
    ELSE IF key = Keys.Push THEN StatusPushKey(m, remotes)
    ELSE IF key = Keys.Commit
    THEN R(IF ~m.status.nil /\ Len(m.status.Staged) > 0
           THEN [m EXCEPT !.commitMode = TRUE] ELSE m, NoCmd)
    ELSE IF key = Keys.CommitEdit THEN R([m EXCEPT !.quitting = TRUE], runGitCommit)
    ELSE IF key = Keys.Stash
    THEN R(IF Len(m.items) > 0 THEN [m EXCEPT !.stashMode = stashFiles] ELSE m, NoCmd)
    ELSE IF key = Keys.StashAll
    THEN R(IF Len(m.items) > 0 THEN [m EXCEPT !.stashMode = stashAll] ELSE m, NoCmd)
    ELSE R(m, NoCmd)

\* StatusModel.Update, tea.KeyMsg
StatusUpdateKey(m, key, remotes) ==
    IF m.showHelp
    THEN R(IF key \in {Keys.Help, "esc", Keys.Quit}
           THEN [m EXCEPT !.showHelp = FALSE] ELSE m, NoCmd)
    ELSE IF m.confirmMode # confirmNone THEN StatusConfirmKey(m, key)
    ELSE IF m.stashMode # stashNone THEN StatusStashInputKey(m, key)
    ELSE IF m.commitMode THEN StatusCommitInputKey(m, key)
    ELSE IF m.lastKey = Keys.Top /\ key = Keys.Top
    THEN R(StatusMoveTo([m EXCEPT !.lastKey = ""], 0), NoCmd)
    ELSE IF key = Keys.Top THEN R([m EXCEPT !.lastKey = Keys.Top], NoCmd)
    ELSE StatusNavKey([m EXCEPT !.lastKey = ""], key, remotes)

\* a statusMsg handler that keeps the cursor where it was
StatusUpdateStatusMsgUnclamped(m, st, bs) ==
    [m EXCEPT !.status = st, !.branchStatus = bs, !.items = buildItems(st),
              !.selected = {}, !.visualMode = FALSE]

\* StatusModel.Update, statusMsg
StatusUpdateStatusMsg(m, st, bs) ==
    LET items == buildItems(st)
        m1 == [m EXCEPT !.status = st, !.branchStatus = bs, !.items = items,
                        !.cursor = IF m.cursor >= Len(items)
                                   THEN Max(0, Len(items) - 1) ELSE m.cursor]
        m2 == ensureCursorVisible(m1)
    IN [m2 EXCEPT !.selected = {}, !.visualMode = FALSE]

\* StatusModel.Update, errMsg
StatusUpdateErrMsg(m, err) == [m EXCEPT !.err = err]

\* StatusModel.Update, tea.WindowSizeMsg
StatusUpdateSize(m, w, h) == [m EXCEPT !.width = w, !.height = h]

----------------------------------------------------------------------------
(* Diff view *)

\* git.DiffLine, git.Hunk, git.FileDiff, git.CombinedDiffResult
Line(type, content) == [Type |-> type, Content |-> content]
Hunk(path, fileIndex, header, lines) ==
    [FilePath |-> path, FileIndex |-> fileIndex, Header |-> header, Lines |-> lines,
     Staged |-> FALSE]
FileDiff(path, header, hunks) == [Path |-> path, Header |-> header, Hunks |-> hunks, nil |-> FALSE]
NoFileDiff == [Path |-> "", Header |-> <<>>, Hunks |-> <<>>, nil |-> TRUE]
CombinedDiff(staged, unstaged) == [StagedDiff |-> staged, UnstagedDiff |-> unstaged, nil |-> FALSE]
NoDiff == [StagedDiff |-> <<>>, UnstagedDiff |-> <<>>, nil |-> TRUE]

\* Parsing git's diff output, and the patch of one hunk.
\* A text is held as the lines strings.Split(text, "\n") makes of it: the
\* empty text is <<"">>, and a text whose last line ends in a newline has ""
\* as its last element.  The lines are drawn from DiffLines; what
\* strings.HasPrefix answers for each of them is listed in the sets below.
FileMarkerX == "diff --git a/x b/x"
FileMarkerBare == "diff --git"
IndexLine == "index 1a..2b 100644"
OldFileLine == "--- a/x"
SimilarityLine == "similarity index 90%"
HunkMarker == "@@ -1 +1 @@"
AddedLine == "+new"
RemovedLine == "-old"
ContextLine == " same"
BlankLine == ""

DiffLines ==
    {FileMarkerX, FileMarkerBare, IndexLine, OldFileLine, SimilarityLine,
     HunkMarker, AddedLine, RemovedLine, ContextLine, BlankLine}

\* strings.HasPrefix(line, "diff --git")
IsFileMarker(line) == line \in {FileMarkerX, FileMarkerBare}
\* the prefixes "index ", "---", "+++", "new file", "deleted file",
\* "old mode", "new mode"
IsFileHeader(line) == line \in {IndexLine, OldFileLine}
\* strings.HasPrefix(line, "@@")
IsHunkMarker(line) == line = HunkMarker
\* strings.HasPrefix(line, "+"), strings.HasPrefix(line, "-")
IsAdded(line) == line = AddedLine
IsRemoved(line) == line \in {RemovedLine, OldFileLine}

\* the path of a file marker: the fourth space-separated part, less its
\* one-letter prefix; the zero value when the marker has fewer parts
MarkerPath(line) == IF line = FileMarkerX THEN "x" ELSE ""

\* the state of parseDiff's loop: currentFile and currentHunk are held as a
\* sequence that is empty for nil; fault is the nil dereference of
\* currentFile.Path
ParseStart ==
    [Files |-> <<>>, currentFile |-> <<>>, currentHunk |-> <<>>, fileIndex |-> -1,
     fault |-> FALSE]

\* currentFile with currentHunk appended to it, when there is one
FileClosed(s) ==
    LET f == s.currentFile[1]
    IN IF s.currentHunk # <<>>
       THEN [f EXCEPT !.Hunks = Append(f.Hunks, s.currentHunk[1])] ELSE f

\* DiffLine of a content line
ContentLine(line) ==
    Line(IF IsAdded(line) THEN "added"
         ELSE IF IsRemoved(line) THEN "removed" ELSE "context", line)

\* one turn of parseDiff's loop
ParseLine(s, line) ==
    IF s.fault THEN s
    ELSE IF IsFileMarker(line)
    THEN [s EXCEPT !.Files = IF s.currentFile # <<>>
                             THEN Append(s.Files, FileClosed(s)) ELSE s.Files,
                   !.fileIndex = s.fileIndex + 1,
                   !.currentFile = <<FileDiff(MarkerPath(line), <<line>>, <<>>)>>,
                   !.currentHunk = <<>>]
    ELSE IF s.currentFile # <<>> /\ s.currentHunk = <<>> /\ IsFileHeader(line)
    THEN [s EXCEPT !.currentFile[1].Header = Append(s.currentFile[1].Header, line)]
    ELSE IF IsHunkMarker(line)
    THEN IF s.currentFile = <<>>
         THEN [s EXCEPT !.fault = TRUE]
         ELSE [s EXCEPT !.currentFile = <<FileClosed(s)>>,
                        !.currentHunk =
                            <<Hunk(s.currentFile[1].Path, s.fileIndex, line, <<>>)>>]
    ELSE IF s.currentHunk # <<>>
    THEN [s EXCEPT !.currentHunk[1].Lines =
                       Append(s.currentHunk[1].Lines, ContentLine(line))]
    ELSE s

RECURSIVE ParseFrom(_, _, _)
ParseFrom(lines, i, s) ==
    IF i > Len(lines) THEN s ELSE ParseFrom(lines, i + 1, ParseLine(s, lines[i]))

\* what parseDiff has not been run on yet, its result, and the panic
Unparsed == [done |-> FALSE, fault |-> FALSE, Files |-> <<>>]
Parsed(files) == [done |-> TRUE, fault |-> FALSE, Files |-> files]
Fault == [done |-> TRUE, fault |-> TRUE, Files |-> <<>>]

\* parseDiff
parseDiff(lines) ==
    IF lines = <<"">> THEN Parsed(<<>>)
    ELSE LET s == ParseFrom(lines, 1, ParseStart)
         IN IF s.fault THEN Fault
            ELSE IF s.currentFile # <<>> THEN Parsed(Append(s.Files, FileClosed(s)))
            ELSE Parsed(s.Files)

\* GetUntrackedFileDiff: the first file of the parsed `git diff --no-index`
\* output, with the path of the file and of its hunks set to path; nil when
\* nothing was parsed
GetUntrackedFileDiff(path, files) ==
    IF Len(files) > 0
    THEN [files[1] EXCEPT !.Path = path,
                          !.Hunks = [i \in 1..Len(files[1].Hunks) |->
                                        [files[1].Hunks[i] EXCEPT !.FilePath = path]]]
    ELSE NoFileDiff

\* Hunk.GeneratePatch: every line written is followed by a newline
GeneratePatch(h, fileDiff) ==
    fileDiff.Header \o <<h.Header>> \o [i \in 1..Len(h.Lines) |-> h.Lines[i].Content]
        \o <<"">>

FileFilter(path, showStaged, untracked) ==
    [Path |-> path, ShowStaged |-> showStaged, Untracked |-> untracked]

RECURSIVE Flatten(_)
Flatten(ss) == IF ss = <<>> THEN <<>> ELSE Head(ss) \o Flatten(Tail(ss))

\* the hunks of one side, in file order, marked with the side
SideHunks(files, staged) ==
    Flatten([i \in 1..Len(files) |->
        [j \in 1..Len(files[i].Hunks) |-> [files[i].Hunks[j] EXCEPT !.Staged = staged]]])

GetAllHunksCombined(c) == SideHunks(c.StagedDiff, TRUE) \o SideHunks(c.UnstagedDiff, FALSE)

GetFileDiff(c, h) ==
    IF h.Staged
    THEN IF h.FileIndex < Len(c.StagedDiff) THEN c.StagedDiff[h.FileIndex + 1] ELSE NoFileDiff
    ELSE IF h.FileIndex < Len(c.UnstagedDiff) THEN c.UnstagedDiff[h.FileIndex + 1]
         ELSE NoFileDiff

\* NewDiffModelWithSize: every path both staged and unstaged
PathFilters(paths) ==
    Flatten([i \in 1..Len(paths) |->
        <<FileFilter(paths[i], TRUE, FALSE), FileFilter(paths[i], FALSE, FALSE)>>])

NewDiffModelWithFilters(filters, width, height) ==
    [diff |-> NoDiff, hunks |-> <<>>, cursor |-> 0, listScrollOffset |-> 0,
     filterFiles |-> filters, viewingHunk |-> FALSE, scrollOffset |-> 0,
     showHelp |-> FALSE, confirmMode |-> FALSE, confirmInput |-> <<>>,
     lastKey |-> "", err |-> NoErr, width |-> width, height |-> height]

NewDiffModelWithSize(paths, width, height) ==
    NewDiffModelWithFilters(PathFilters(paths), width, height)

\* AppModel's zero value of the diff field
ZeroDiffModel == NewDiffModelWithFilters(<<>>, 0, 0)

DiffVisibleLines(m) == IF m.height <= 5 THEN 40 ELSE m.height - 5

visibleHunkListLines(m) ==
    LET reserved == 15
        available == (m.height - reserved) \div 3
    IN IF m.height <= reserved THEN 10
       ELSE IF available < 5 THEN 5 ELSE available

ensureHunkCursorVisible(m) ==
    LET visible == visibleHunkListLines(m)
        s1 == IF m.cursor < m.listScrollOffset THEN m.cursor ELSE m.listScrollOffset
        s2 == IF m.cursor >= s1 + visible THEN m.cursor - visible + 1 ELSE s1
        maxOffset == Max(Len(m.hunks) - visible, 0)
        s3 == IF s2 > maxOffset THEN maxOffset ELSE s2
        s4 == IF s3 < 0 THEN 0 ELSE s3
    IN IF visible <= 0 THEN m ELSE [m EXCEPT !.listScrollOffset = s4]

\* hunkStableKey: the path, then the added and removed lines' contents, or the
\* header when the hunk has none
hunkStableKey(h) ==
    LET changed == SelectSeq(h.Lines, LAMBDA l : l.Type \in {"added", "removed"})
    IN <<h.FilePath, [i \in 1..Len(changed) |-> changed[i].Content],
         IF Len(changed) = 0 THEN h.Header ELSE "">>

\* the first loop of keepHunkOrder from old hunk i on: `used` are the indices
\* of newHunks already taken
RECURSIVE KeepFrom(_, _, _, _)
KeepFrom(old, newHunks, i, used) ==
    IF i > Len(old) THEN [ordered |-> <<>>, used |-> used]
    ELSE LET cand == {j \in 1..Len(newHunks) :
                        j \notin used /\ hunkStableKey(newHunks[j]) = hunkStableKey(old[i])}
         IN IF cand = {} THEN KeepFrom(old, newHunks, i + 1, used)
            ELSE LET idx == CHOOSE j \in cand : \A k \in cand : j <= k
                     rest == KeepFrom(old, newHunks, i + 1, used \cup {idx})
                 IN [ordered |-> <<newHunks[idx]>> \o rest.ordered, used |-> rest.used]

\* a keepHunkOrder that returns the fetched list as it came
keepHunkOrderAsFetched(m, newHunks) == newHunks

keepHunkOrder(m, newHunks) ==
    LET kept == KeepFrom(m.hunks, newHunks, 1, {})
        left == SelectSeq([j \in 1..Len(newHunks) |-> j], LAMBDA j : j \notin kept.used)
    IN kept.ordered \o [k \in 1..Len(left) |-> newHunks[left[k]]]

\* a getFilteredHunks that filters by path alone
getFilteredHunksByPath(m, untracked) ==
    IF m.diff.nil THEN <<>>
    ELSE LET allHunks == GetAllHunksCombined(m.diff)
             paths == {m.filterFiles[i].Path : i \in 1..Len(m.filterFiles)}
         IN IF Len(m.filterFiles) = 0 THEN allHunks
            ELSE SelectSeq(allHunks, LAMBDA h : h.FilePath \in paths)

\* getFilteredHunks; untracked(path) is what git.GetUntrackedFileDiff(path)
\* returns at the time of the call
getFilteredHunks(m, untracked) ==
    IF m.diff.nil THEN <<>>
    ELSE LET allHunks == GetAllHunksCombined(m.diff)
             plain == SelectSeq(m.filterFiles, LAMBDA f : ~f.Untracked)
             utf == SelectSeq(m.filterFiles, LAMBDA f : f.Untracked)
             filterSet == {<<plain[i].Path, plain[i].ShowStaged>> : i \in 1..Len(plain)}
             filtered == SelectSeq(allHunks, LAMBDA h : <<h.FilePath, h.Staged>> \in filterSet)
             extra == Flatten([i \in 1..Len(utf) |->
                         LET fd == untracked[utf[i].Path]
                         IN IF fd.nil THEN <<>>
                            ELSE [j \in 1..Len(fd.Hunks) |->
                                    [fd.Hunks[j] EXCEPT !.Staged = FALSE]]])
         IN IF Len(m.filterFiles) = 0 THEN allHunks ELSE filtered \o extra

RefreshDiffCmd(by) == Cmd("refreshCombinedDiff", <<>>, <<>>, by)

\* the command of toggleStage / stageHunk / unstageHunk / doDiscard for the
\* hunk under the cursor, once their guards have passed
HunkCmd(m, kind, op) ==
    LET hunk == m.hunks[m.cursor + 1]
        fileDiff == GetFileDiff(m.diff, hunk)
    IN IF fileDiff.nil THEN NoCmd
       ELSE Cmd(kind, <<HunkOp(op, hunk.FilePath,
                               IF hunk.Staged THEN "staged" ELSE "unstaged",
                               fileDiff.Path)>>, <<>>, "key")

HasHunk(m) == ~(Len(m.hunks) = 0 \/ m.cursor >= Len(m.hunks))

DiffToggleStage(m) ==
    IF ~HasHunk(m) THEN NoCmd
    ELSE HunkCmd(m, "toggleHunk",
                 IF m.hunks[m.cursor + 1].Staged THEN "UnstageHunk" ELSE "StageHunk")

stageHunk(m) ==
    IF ~HasHunk(m) THEN NoCmd
    ELSE IF m.hunks[m.cursor + 1].Staged THEN NoCmd
    ELSE HunkCmd(m, "stageHunk", "StageHunk")

unstageHunk(m) ==
    IF ~HasHunk(m) THEN NoCmd
    ELSE IF ~m.hunks[m.cursor + 1].Staged THEN NoCmd
    ELSE HunkCmd(m, "unstageHunk", "UnstageHunk")

\* doDiscard that relies on the staged test made when the confirmation was opened
DiffDoDiscardUnchecked(m) ==
    IF ~HasHunk(m) THEN NoCmd
    ELSE HunkCmd(m, "discardHunk", "DiscardHunk")

DiffDoDiscard(m) ==
    IF ~HasHunk(m) THEN NoCmd
    ELSE IF m.hunks[m.cursor + 1].Staged THEN NoCmd
    ELSE HunkCmd(m, "discardHunk", "DiscardHunk")

\* the Keys.Discard case of both switches
DiffDiscardKey(m) ==
    IF Len(m.hunks) > 0 /\ m.cursor < Len(m.hunks) /\ ~m.hunks[m.cursor + 1].Staged
    THEN [m EXCEPT !.confirmMode = TRUE]
    ELSE m

\* a confirm mode answered with a single y or n
DiffConfirmKeyYN(m, key) ==
    IF key \in {"y", "Y"}
    THEN LET m1 == [m EXCEPT !.confirmMode = FALSE] IN R(m1, DiffDoDiscard(m1))
    ELSE IF key \in {"n", "N", "esc"} THEN R([m EXCEPT !.confirmMode = FALSE], NoCmd)
    ELSE R(m, NoCmd)

\* DiffModel.Update, tea.KeyMsg, confirm mode
DiffConfirmKey(m, key) ==
    IF key = "backspace"
    THEN R(IF Len(m.confirmInput) > 0
           THEN [m EXCEPT !.confirmInput = Front(m.confirmInput)] ELSE m, NoCmd)
    ELSE IF key = "enter"
    THEN IF m.confirmInput = Yes
         THEN LET m1 == [m EXCEPT !.confirmMode = FALSE, !.confirmInput = <<>>]
              IN R(m1, DiffDoDiscard(m1))
         ELSE R(m, NoCmd)
    ELSE IF key = "esc"
    THEN R([m EXCEPT !.confirmMode = FALSE, !.confirmInput = <<>>], NoCmd)
    ELSE R(IF IsLowerLetter(key)
           THEN [m EXCEPT !.confirmInput = Append(m.confirmInput, key)] ELSE m, NoCmd)

\* DiffModel.Update, tea.KeyMsg, hunk detail
DiffDetailKey(m, key) ==
    LET maxScroll == Len(m.hunks[m.cursor + 1].Lines) - DiffVisibleLines(m)
    IN
    IF key \in {Keys.Left, "left", "esc"}
    THEN R([m EXCEPT !.viewingHunk = FALSE, !.scrollOffset = 0], NoCmd)
    ELSE IF key \in {Keys.Down, "down"}
    THEN R(IF m.cursor < Len(m.hunks) /\ maxScroll > 0
           THEN [m EXCEPT !.scrollOffset = Min(m.scrollOffset + 1, maxScroll)] ELSE m, NoCmd)
    ELSE IF key \in {Keys.Up, "up"}
    THEN R([m EXCEPT !.scrollOffset = Max(m.scrollOffset - 1, 0)], NoCmd)
    ELSE IF key = Keys.Top
    THEN IF m.lastKey = Keys.Top
         THEN R([m EXCEPT !.lastKey = "", !.scrollOffset = 0], NoCmd)
         ELSE R([m EXCEPT !.lastKey = Keys.Top], NoCmd)
    ELSE IF key = Keys.Bottom
    THEN R(IF m.cursor < Len(m.hunks) /\ maxScroll > 0
           THEN [m EXCEPT !.scrollOffset = maxScroll] ELSE m, NoCmd)
    ELSE IF key = " " THEN R(m, DiffToggleStage(m))
    ELSE IF key = Keys.Stage THEN R(m, stageHunk(m))
    ELSE IF key = Keys.Unstage THEN R(m, unstageHunk(m))
    ELSE IF key = Keys.Discard THEN R(DiffDiscardKey(m), NoCmd)
    ELSE IF key = Keys.Quit THEN R(m, QuitCmd)
    ELSE IF key = Keys.Help THEN R([m EXCEPT !.showHelp = TRUE], NoCmd)
    ELSE R([m EXCEPT !.lastKey = ""], NoCmd)

\* a cursor move in the hunk list
DiffMoveTo(m, c) == ensureHunkCursorVisible([m EXCEPT !.cursor = c])

\* DiffModel.Update, tea.KeyMsg, the hunk list switch
DiffListKey(m, key) ==
    IF key = Keys.Quit THEN R(m, QuitCmd)
    ELSE IF key = Keys.Help THEN R([m EXCEPT !.showHelp = TRUE], NoCmd)
    ELSE IF key \in {Keys.Right, "right", "enter"}
    THEN R(IF Len(m.hunks) > 0 /\ m.cursor < Len(m.hunks)
           THEN [m EXCEPT !.viewingHunk = TRUE, !.scrollOffset = 0] ELSE m, NoCmd)
    ELSE IF key \in {Keys.Down, "down"}
    THEN R(IF Len(m.hunks) > 0
           THEN DiffMoveTo(m, Min(m.cursor + 1, Len(m.hunks) - 1)) ELSE m, NoCmd)
    ELSE IF key \in {Keys.Up, "up"}
    THEN R(IF Len(m.hunks) > 0 THEN DiffMoveTo(m, Max(m.cursor - 1, 0)) ELSE m, NoCmd)
    ELSE IF key = Keys.Bottom
    THEN R(IF Len(m.hunks) > 0 THEN DiffMoveTo(m, Len(m.hunks) - 1) ELSE m, NoCmd)
    ELSE IF key = " " THEN R(m, DiffToggleStage(m))
    ELSE IF key = Keys.Stage THEN R(m, stageHunk(m))
    ELSE IF key = Keys.Unstage THEN R(m, unstageHunk(m))
    ELSE IF key = Keys.Discard THEN R(DiffDiscardKey(m), NoCmd)
    ELSE R(m, NoCmd)

\* DiffModel.Update, tea.KeyMsg
DiffUpdateKey(m, key) ==
    IF m.showHelp
    THEN R(IF key \in {Keys.Help, "esc", Keys.Quit}
           THEN [m EXCEPT !.showHelp = FALSE] ELSE m, NoCmd)
    ELSE IF m.confirmMode THEN DiffConfirmKey(m, key)
    ELSE IF m.viewingHunk THEN DiffDetailKey(m, key)
    ELSE IF m.lastKey = Keys.Top /\ key = Keys.Top
    THEN R(DiffMoveTo([m EXCEPT !.lastKey = ""], 0), NoCmd)
    ELSE IF key = Keys.Top THEN R([m EXCEPT !.lastKey = Keys.Top], NoCmd)
    ELSE DiffListKey([m EXCEPT !.lastKey = ""], key)

\* a combinedDiffMsg handler that never opens the only hunk by itself
DiffUpdateDiffMsgStaysInList(m, d, untracked) ==
    LET m0 == [m EXCEPT !.diff = d]
        fetched == getFilteredHunks(m0, untracked)
        newHunks == IF Len(m.hunks) > 0 /\ Len(fetched) > 0
                    THEN keepHunkOrder(m0, fetched) ELSE fetched
        m1 == [m0 EXCEPT !.hunks = newHunks,
                         !.cursor = IF m.cursor >= Len(newHunks)
                                    THEN Max(0, Len(newHunks) - 1) ELSE m.cursor]
    IN ensureHunkCursorVisible(m1)

\* DiffModel.Update, combinedDiffMsg
DiffUpdateDiffMsg(m, d, untracked) ==
    LET m0 == [m EXCEPT !.diff = d]
        fetched == getFilteredHunks(m0, untracked)
        newHunks == IF Len(m.hunks) > 0 /\ Len(fetched) > 0
                    THEN keepHunkOrder(m0, fetched) ELSE fetched
        m1 == [m0 EXCEPT !.hunks = newHunks,
                         !.cursor = IF m.cursor >= Len(newHunks)
                                    THEN Max(0, Len(newHunks) - 1) ELSE m.cursor]
        m2 == ensureHunkCursorVisible(m1)
    IN IF Len(m2.hunks) = 1 /\ ~m2.viewingHunk
       THEN [m2 EXCEPT !.viewingHunk = TRUE, !.scrollOffset = 0]
       ELSE m2

DiffUpdateErrMsg(m, err) == [m EXCEPT !.err = err]

DiffUpdateSize(m, w, h) == [m EXCEPT !.width = w, !.height = h]

----------------------------------------------------------------------------
(* Branches view *)

\* git.Branch; a name is the sequence of its characters
Branch(name, isCurrent) == [Name |-> name, IsCurrent |-> isCurrent]

NewBranchesModel ==
    [branches |-> <<>>, cursor |-> 0, showHelp |-> FALSE, inputMode |-> FALSE,
     deleteConfirmMode |-> FALSE, forceDeleteMode |-> FALSE,
     pendingDeleteBranch |-> <<>>, branchInput |-> <<>>, deleteInput |-> <<>>,
     lastKey |-> "", err |-> NoErr, width |-> 0, height |-> 0]

RefreshBranchesCmd(by) == Cmd("refreshBranches", <<>>, <<>>, by)

doCheckoutBranch(m, name) == Cmd("checkoutBranch", <<Op("CheckoutBranch", "", "")>>, name, "key")

doCreateBranch(m, name) == Cmd("createBranch", <<Op("CreateBranch", "", "")>>, name, "key")

\* the branch is the one under the cursor when the command is built; the
\* command remembers whether the list marked it current
doDeleteBranch(m) ==
    IF m.cursor >= Len(m.branches) THEN NoCmd
    ELSE LET branch == m.branches[m.cursor + 1]
         IN Cmd("deleteBranch",
                <<Op("DeleteBranch", "", IF branch.IsCurrent THEN "current" ELSE "other")>>,
                branch.Name, "key")

doForceDeleteBranch(m) ==
    IF m.pendingDeleteBranch = <<>> THEN NoCmd
    ELSE Cmd("forceDeleteBranch", <<Op("ForceDeleteBranch", "", "")>>,
             m.pendingDeleteBranch, "key")

\* BranchesModel.Update, tea.KeyMsg, delete confirm mode
BranchesDeleteConfirmKey(m, key) ==
    IF key = "enter"
    THEN LET m1 == [m EXCEPT !.deleteConfirmMode = FALSE, !.deleteInput = <<>>]
         IN IF m.cursor < Len(m.branches) /\ m.deleteInput = m.branches[m.cursor + 1].Name
            THEN R(m1, doDeleteBranch(m1))
            ELSE R(m1, NoCmd)
    ELSE IF key = "esc"
    THEN R([m EXCEPT !.deleteConfirmMode = FALSE, !.deleteInput = <<>>], NoCmd)
    ELSE R([m EXCEPT !.deleteInput = TextInputUpdate(m.deleteInput, key)], NoCmd)

\* BranchesModel.Update, tea.KeyMsg, force delete confirm mode
BranchesForceDeleteKey(m, key) ==
    IF key \in {"y", "Y"}
    THEN LET m1 == [m EXCEPT !.forceDeleteMode = FALSE, !.err = NoErr]
         IN R(m1, doForceDeleteBranch(m1))
    ELSE IF key \in {"n", "N", "esc"}
    THEN R([m EXCEPT !.forceDeleteMode = FALSE, !.pendingDeleteBranch = <<>>,
                     !.err = NoErr], NoCmd)
    ELSE R(m, NoCmd)

\* BranchesModel.Update, tea.KeyMsg, new branch input mode
BranchesInputKey(m, key) ==
    IF key = "enter"
    THEN LET m1 == [m EXCEPT !.inputMode = FALSE, !.branchInput = <<>>]
         IN IF m.branchInput # <<>> THEN R(m1, doCreateBranch(m1, m.branchInput))
            ELSE R(m1, NoCmd)
    ELSE IF key = "esc"
    THEN R([m EXCEPT !.inputMode = FALSE, !.branchInput = <<>>], NoCmd)
    ELSE R([m EXCEPT !.branchInput = TextInputUpdate(m.branchInput, key)], NoCmd)

\* the Keys.Delete case
BranchesDeleteKey(m) ==
    IF Len(m.branches) > 0 /\ m.cursor < Len(m.branches)
       /\ ~m.branches[m.cursor + 1].IsCurrent
    THEN [m EXCEPT !.deleteConfirmMode = TRUE]
    ELSE m

\* BranchesModel.Update, tea.KeyMsg, the navigation switch
BranchesNavKey(m, key) ==
    IF key = Keys.Help THEN R([m EXCEPT !.showHelp = TRUE], NoCmd)
    ELSE IF key \in {Keys.Down, "down"}
    THEN R(IF Len(m.branches) > 0
           THEN [m EXCEPT !.cursor = Min(m.cursor + 1, Len(m.branches) - 1)] ELSE m, NoCmd)
    ELSE IF key \in {Keys.Up, "up"}
    THEN R(IF Len(m.branches) > 0
           THEN [m EXCEPT !.cursor = Max(m.cursor - 1, 0)] ELSE m, NoCmd)
    ELSE IF key = Keys.Bottom
    THEN R(IF Len(m.branches) > 0
           THEN [m EXCEPT !.cursor = Len(m.branches) - 1] ELSE m, NoCmd)
    ELSE IF key \in {Keys.Right, "right", "enter"}
    THEN IF Len(m.branches) > 0 /\ m.cursor < Len(m.branches)
            /\ ~m.branches[m.cursor + 1].IsCurrent
         THEN R(m, doCheckoutBranch(m, m.branches[m.cursor + 1].Name))
         ELSE R(m, NoCmd)
    ELSE IF key = Keys.NewBranch THEN R([m EXCEPT !.inputMode = TRUE], NoCmd)
    ELSE IF key = Keys.Delete THEN R(BranchesDeleteKey(m), NoCmd)
    ELSE R(m, NoCmd)

\* BranchesModel.Update, tea.KeyMsg
BranchesUpdateKey(m, key) ==
    IF m.showHelp
    THEN R(IF key \in {Keys.Help, "esc", Keys.Quit}
           THEN [m EXCEPT !.showHelp = FALSE] ELSE m, NoCmd)
    ELSE IF m.deleteConfirmMode THEN BranchesDeleteConfirmKey(m, key)
    ELSE IF m.forceDeleteMode THEN BranchesForceDeleteKey(m, key)
    ELSE IF m.inputMode THEN BranchesInputKey(m, key)
    ELSE IF m.lastKey = Keys.Top /\ key = Keys.Top
    THEN R([m EXCEPT !.lastKey = "", !.cursor = 0], NoCmd)
    ELSE IF key = Keys.Top THEN R([m EXCEPT !.lastKey = Keys.Top], NoCmd)
    ELSE BranchesNavKey([m EXCEPT !.lastKey = ""], key)

\* BranchesModel.Update, branchesMsg: clamp the cursor, then put it on the
\* first branch marked current
BranchesUpdateBranchesMsg(m, bl) ==
    LET clamped == IF m.cursor >= Len(bl) THEN Max(0, Len(bl) - 1) ELSE m.cursor
        cur == {i \in 1..Len(bl) : bl[i].IsCurrent}
    IN [m EXCEPT !.branches = bl,
                 !.cursor = IF cur = {} THEN clamped
                            ELSE (CHOOSE i \in cur : \A j \in cur : i <= j) - 1]

\* BranchesModel.Update, branchDeleteFailedMsg
BranchesUpdateDeleteFailed(m, name, err) ==
    [m EXCEPT !.err = err, !.pendingDeleteBranch = name, !.forceDeleteMode = TRUE]

BranchesUpdateErrMsg(m, err) == [m EXCEPT !.err = err]

BranchesUpdateSize(m, w, h) == [m EXCEPT !.width = w, !.height = h]

----------------------------------------------------------------------------
(* Stashes view and Stash-Diff view *)

\* git.Stash
Stash(index, message) == [Index |-> index, Message |-> message]

NewStashDiffModel(width, height) ==
    [diff |-> NoDiff, hunks |-> <<>>, cursor |-> 0, viewingHunk |-> FALSE,
     scrollOffset |-> 0, showHelp |-> FALSE, err |-> NoErr,
     width |-> width, height |-> height]

StashDiffVisibleLines(m) == IF m.height <= 5 THEN 40 ELSE m.height - 5

\* StashDiffModel.Update, tea.KeyMsg, hunk detail
StashDiffDetailKey(m, key) ==
    LET maxScroll == Len(m.hunks[m.cursor + 1].Lines) - StashDiffVisibleLines(m)
    IN
    IF key \in {Keys.Left, "left", "esc"}
    THEN R([m EXCEPT !.viewingHunk = FALSE, !.scrollOffset = 0], NoCmd)
    ELSE IF key \in {Keys.Down, "down"}
    THEN R(IF m.cursor < Len(m.hunks) /\ maxScroll > 0
           THEN [m EXCEPT !.scrollOffset = Min(m.scrollOffset + 1, maxScroll)] ELSE m, NoCmd)
    ELSE IF key \in {Keys.Up, "up"}
    THEN R([m EXCEPT !.scrollOffset = Max(m.scrollOffset - 1, 0)], NoCmd)
    ELSE IF key = Keys.Bottom
    THEN R(IF m.cursor < Len(m.hunks) /\ maxScroll > 0
           THEN [m EXCEPT !.scrollOffset = maxScroll] ELSE m, NoCmd)
    ELSE IF key = Keys.Top THEN R([m EXCEPT !.scrollOffset = 0], NoCmd)
    ELSE IF key = Keys.Help THEN R([m EXCEPT !.showHelp = TRUE], NoCmd)
    ELSE R(m, NoCmd)

\* StashDiffModel.Update, tea.KeyMsg, the hunk list switch
StashDiffListKey(m, key) ==
    IF key = Keys.Help THEN R([m EXCEPT !.showHelp = TRUE], NoCmd)
    ELSE IF key \in {Keys.Right, "right"}
    THEN R(IF Len(m.hunks) > 0 /\ m.cursor < Len(m.hunks)
           THEN [m EXCEPT !.viewingHunk = TRUE, !.scrollOffset = 0] ELSE m, NoCmd)
    ELSE IF key \in {Keys.Down, "down"}
    THEN R(IF Len(m.hunks) > 0
           THEN [m EXCEPT !.cursor = Min(m.cursor + 1, Len(m.hunks) - 1)] ELSE m, NoCmd)
    ELSE IF key \in {Keys.Up, "up"}
    THEN R(IF Len(m.hunks) > 0 THEN [m EXCEPT !.cursor = Max(m.cursor - 1, 0)] ELSE m, NoCmd)
    ELSE IF key = Keys.Bottom
    THEN R(IF Len(m.hunks) > 0 THEN [m EXCEPT !.cursor = Len(m.hunks) - 1] ELSE m, NoCmd)
    ELSE IF key = Keys.Top THEN R([m EXCEPT !.cursor = 0], NoCmd)
    ELSE R(m, NoCmd)

\* a Stash-Diff view whose help overlay lets the other keys through
StashDiffUpdateKeyThroughHelp(m, key) ==
    IF m.showHelp /\ key \in {Keys.Help, "esc", Keys.Quit}
    THEN R([m EXCEPT !.showHelp = FALSE], NoCmd)
    ELSE IF m.viewingHunk THEN StashDiffDetailKey(m, key)
    ELSE StashDiffListKey(m, key)

\* StashDiffModel.Update, tea.KeyMsg
StashDiffUpdateKey(m, key) ==
    IF m.showHelp
    THEN R(IF key \in {Keys.Help, "esc", Keys.Quit}
           THEN [m EXCEPT !.showHelp = FALSE] ELSE m, NoCmd)
    ELSE IF m.viewingHunk THEN StashDiffDetailKey(m, key)
    ELSE StashDiffListKey(m, key)

\* StashDiffModel.Update, stashDiffMsg
StashDiffUpdateDiffMsg(m, d) ==
    LET hunks == GetAllHunksCombined(d)
        m1 == [m EXCEPT !.diff = d, !.hunks = hunks, !.cursor = 0]
    IN IF Len(hunks) = 1 THEN [m1 EXCEPT !.viewingHunk = TRUE, !.scrollOffset = 0] ELSE m1

\* StashDiffModel.Update, errMsg
StashDiffUpdateErrMsg(m, err) == [m EXCEPT !.err = err]

\* StashDiffModel.Update, tea.WindowSizeMsg
StashDiffUpdateSize(m, w, h) == [m EXCEPT !.width = w, !.height = h]

stashActionNone == ""
stashActionPop == "pop"
stashActionDrop == "drop"

NewStashesModelWithOptions(showVerboseHelp) ==
    [stashes |-> <<>>, cursor |-> 0, scrollOffset |-> 0, showHelp |-> FALSE,
     showVerboseHelp |-> showVerboseHelp, confirmMode |-> FALSE,
     confirmAction |-> stashActionNone, diffModel |-> NewStashDiffModel(0, 0),
     lastKey |-> "", err |-> NoErr, width |-> 0, height |-> 0]

RefreshStashesCmd(by) == Cmd("refreshStashes", <<>>, <<>>, by)

StashesVisibleLines(m) ==
    LET reserved == IF m.showVerboseHelp THEN 11 ELSE 8
    IN IF m.height <= reserved THEN 10 ELSE m.height - reserved

StashesEnsureCursorVisible(m) ==
    LET visible == StashesVisibleLines(m)
        s1 == IF m.cursor < m.scrollOffset THEN m.cursor ELSE m.scrollOffset
        s2 == IF m.cursor >= s1 + visible THEN m.cursor - visible + 1 ELSE s1
        maxOffset == Max(Len(m.stashes) - visible, 0)
        s3 == IF s2 > maxOffset THEN maxOffset ELSE s2
    IN IF visible <= 0 THEN m
       ELSE [m EXCEPT !.scrollOffset = IF s3 < 0 THEN 0 ELSE s3]

\* the command of a stash operation on the stash under the cursor: the git
\* call on its index, then the refresh of the list
StashCmd(m, kind, op) ==
    IF m.cursor >= Len(m.stashes) THEN NoCmd
    ELSE Cmd(kind, <<Op(op, "", "")>>, <<m.stashes[m.cursor + 1].Index>>, "key")

doApplyStash(m) == StashCmd(m, "applyStash", "ApplyStash")

doPopStash(m) == StashCmd(m, "popStash", "PopStash")

doDropStash(m) == StashCmd(m, "dropStash", "DropStash")

\* a confirmation that takes n for a yes as well
StashesConfirmKeyAnyAnswer(m, key) ==
    LET closed == [m EXCEPT !.confirmMode = FALSE, !.confirmAction = stashActionNone]
    IN IF key \in {"y", "Y", "n", "N"}
       THEN IF m.confirmAction = stashActionDrop THEN R(closed, doDropStash(closed))
            ELSE IF m.confirmAction = stashActionPop THEN R(closed, doPopStash(closed))
            ELSE R(closed, NoCmd)
       ELSE IF key = "esc" THEN R(closed, NoCmd)
       ELSE R(m, NoCmd)

\* StashesModel.Update, tea.KeyMsg, confirmation mode
StashesConfirmKey(m, key) ==
    LET closed == [m EXCEPT !.confirmMode = FALSE, !.confirmAction = stashActionNone]
    IN IF key \in {"y", "Y"}
       THEN IF m.confirmAction = stashActionDrop THEN R(closed, doDropStash(closed))
            ELSE IF m.confirmAction = stashActionPop THEN R(closed, doPopStash(closed))
            ELSE R(closed, NoCmd)
       ELSE IF key \in {"n", "N", "esc"} THEN R(closed, NoCmd)
       ELSE R(m, NoCmd)

\* a cursor move in the stash list
StashesMoveTo(m, c) == StashesEnsureCursorVisible([m EXCEPT !.cursor = c])

\* the stash under the cursor exists
HasStash(m) == Len(m.stashes) > 0 /\ m.cursor < Len(m.stashes)

\* StashesModel.Update, tea.KeyMsg, the navigation switch
StashesNavKey(m, key) ==
    IF key = Keys.Help THEN R([m EXCEPT !.showHelp = TRUE], NoCmd)
    ELSE IF key = Keys.VerboseHelp
    THEN R([m EXCEPT !.showVerboseHelp = ~m.showVerboseHelp], NoCmd)
    ELSE IF key \in {Keys.Down, "down"}
    THEN R(IF Len(m.stashes) > 0
           THEN StashesMoveTo(m, Min(m.cursor + 1, Len(m.stashes) - 1)) ELSE m, NoCmd)
    ELSE IF key \in {Keys.Up, "up"}
    THEN R(IF Len(m.stashes) > 0 THEN StashesMoveTo(m, Max(m.cursor - 1, 0)) ELSE m, NoCmd)
    ELSE IF key = Keys.Bottom
    THEN R(IF Len(m.stashes) > 0 THEN StashesMoveTo(m, Len(m.stashes) - 1) ELSE m, NoCmd)
    ELSE IF key = "a"
    THEN R(m, IF HasStash(m) THEN doApplyStash(m) ELSE NoCmd)
    ELSE IF key = "p"
    THEN R(IF HasStash(m)
           THEN [m EXCEPT !.confirmMode = TRUE, !.confirmAction = stashActionPop] ELSE m,
           NoCmd)
    ELSE IF key = "d"
    THEN R(IF HasStash(m)
           THEN [m EXCEPT !.confirmMode = TRUE, !.confirmAction = stashActionDrop] ELSE m,
           NoCmd)
    ELSE R(m, NoCmd)

\* a Stashes view that jumps to the top on a single Top press
StashesUpdateKeySingleTop(m, key) ==
    IF m.showHelp
    THEN R(IF key \in {Keys.Help, "esc", Keys.Quit}
           THEN [m EXCEPT !.showHelp = FALSE] ELSE m, NoCmd)
    ELSE IF m.confirmMode THEN StashesConfirmKey(m, key)
    ELSE IF key = Keys.Top THEN R(StashesMoveTo([m EXCEPT !.lastKey = ""], 0), NoCmd)
    ELSE StashesNavKey([m EXCEPT !.lastKey = ""], key)

\* StashesModel.Update, tea.KeyMsg
StashesUpdateKey(m, key) ==
    IF m.showHelp
    THEN R(IF key \in {Keys.Help, "esc", Keys.Quit}
           THEN [m EXCEPT !.showHelp = FALSE] ELSE m, NoCmd)
    ELSE IF m.confirmMode THEN StashesConfirmKey(m, key)
    ELSE IF m.lastKey = Keys.Top /\ key = Keys.Top
    THEN R(StashesMoveTo([m EXCEPT !.lastKey = ""], 0), NoCmd)
    ELSE IF key = Keys.Top THEN R([m EXCEPT !.lastKey = Keys.Top], NoCmd)
    ELSE StashesNavKey([m EXCEPT !.lastKey = ""], key)

\* a stashesMsg handler that leaves the cursor where it was
StashesUpdateStashesMsgUnclamped(m, sl) ==
    StashesEnsureCursorVisible([m EXCEPT !.stashes = sl])

\* StashesModel.Update, stashesMsg
StashesUpdateStashesMsg(m, sl) ==
    LET m1 == [m EXCEPT !.stashes = sl]
    IN StashesEnsureCursorVisible(
           IF m1.cursor >= Len(sl) THEN [m1 EXCEPT !.cursor = Max(0, Len(sl) - 1)] ELSE m1)

\* StashesModel.Update, stashDiffMsg
StashesUpdateDiffMsg(m, d) ==
    LET hunks == GetAllHunksCombined(d)
        dm == [m.diffModel EXCEPT !.diff = d, !.hunks = hunks, !.cursor = 0]
    IN [m EXCEPT !.diffModel =
            IF Len(hunks) = 1 THEN [dm EXCEPT !.viewingHunk = TRUE] ELSE dm]

\* StashesModel.Update, errMsg
StashesUpdateErrMsg(m, err) == [m EXCEPT !.err = err]

\* StashesModel.Update, tea.WindowSizeMsg
StashesUpdateSize(m, w, h) == [m EXCEPT !.width = w, !.height = h]

----------------------------------------------------------------------------
(* Application shell *)

viewStatus == "viewStatus"
viewFileDiff == "viewFileDiff"
viewFullDiff == "viewFullDiff"
viewBranches == "viewBranches"
viewStashes == "viewStashes"
viewStashDiff == "viewStashDiff"

\* the AppModel as one value
App == [mode |-> mode, status |-> status, diff |-> diff, branches |-> branches,
        stashes |-> stashes, log |-> log,
        currentFiles |-> currentFiles, size |-> size]

\* what AppModel.Update returns: the new AppModel and the commands batched
RA(a, cmds) == [a |-> a, cmds |-> cmds]

\* a view's result lifted to the AppModel
Lift(a, field, r) ==
    RA([a EXCEPT ![field] = r.m], IF r.cmd.kind = "none" THEN <<>> ELSE <<r.cmd>>)

\* AppModel.updateCurrentView for a key
updateCurrentViewKey(a, key, remotes) ==
    IF a.mode \in {viewFileDiff, viewFullDiff} THEN Lift(a, "diff", DiffUpdateKey(a.diff, key))
    ELSE IF a.mode = viewBranches THEN Lift(a, "branches", BranchesUpdateKey(a.branches, key))
    ELSE IF a.mode = viewStashes THEN Lift(a, "stashes", StashesUpdateKey(a.stashes, key))
    ELSE IF a.mode = viewStashDiff
    THEN LET r == StashDiffUpdateKey(a.stashes.diffModel, key)
         IN Lift(a, "stashes", R([a.stashes EXCEPT !.diffModel = r.m], r.cmd))
    ELSE Lift(a, "status", StatusUpdateKey(a.status, key, remotes))

\* the filter AppModel.Update builds from the effective targets
FiltersOf(items) ==
    [i \in 1..Len(items) |->
        FileFilter(items[i].Path, items[i].Section = "staged", items[i].Section = "untracked")]

\* AppModel.Update, tea.KeyMsg, case viewStatus
AppStatusKey(a, key, remotes) ==
    IF a.status.commitMode \/ a.status.stashMode # stashNone
       \/ a.status.confirmMode # confirmNone
    THEN updateCurrentViewKey(a, key, remotes)
    ELSE IF key \in {Keys.FileDiff, Keys.Right, "right", "enter"}
    THEN LET items == getSelectedItems(a.status)
         IN IF Len(items) > 0
            THEN RA([a EXCEPT !.currentFiles = FiltersOf(items),
                              !.diff = NewDiffModelWithFilters(FiltersOf(items),
                                                               a.size[1], a.size[2]),
                              !.mode = viewFileDiff],
                    <<RefreshDiffCmd("init")>>)
            ELSE RA(a, <<>>)
    ELSE IF key = Keys.AllDiffs
    THEN RA([a EXCEPT !.diff = NewDiffModelWithSize(<<>>, a.size[1], a.size[2]),
                      !.mode = viewFullDiff],
            <<RefreshDiffCmd("init")>>)
    ELSE IF key = Keys.Branches
    THEN RA([a EXCEPT !.branches = [NewBranchesModel EXCEPT !.width = a.size[1],
                                                            !.height = a.size[2]],
                      !.mode = viewBranches],
            <<RefreshBranchesCmd("init")>>)
    ELSE IF key = Keys.Stashes
    THEN RA([a EXCEPT !.stashes =
                 [NewStashesModelWithOptions(a.status.showVerboseHelp)
                      EXCEPT !.width = a.size[1], !.height = a.size[2]],
                      !.mode = viewStashes],
            <<RefreshStashesCmd("init")>>)
    ELSE updateCurrentViewKey(a, key, remotes)

\* AppModel.Update, tea.KeyMsg, cases viewFileDiff and viewFullDiff
AppDiffKey(a, key, remotes) ==
    IF key \in {Keys.Left, "left", "esc"}
       /\ (~a.diff.viewingHunk
           \/ (Len(a.diff.hunks) = 1 /\ ~a.diff.showHelp /\ ~a.diff.confirmMode))
    THEN RA([a EXCEPT !.mode = viewStatus], <<RefreshStatusCmd("leave")>>)
    ELSE updateCurrentViewKey(a, key, remotes)

\* AppModel.Update, tea.KeyMsg, case viewBranches
AppBranchesKey(a, key, remotes) ==
    IF key \in {Keys.Left, "left", "esc", Keys.Quit}
       /\ ~a.branches.showHelp /\ ~a.branches.deleteConfirmMode
       /\ ~a.branches.inputMode /\ ~a.branches.forceDeleteMode
    THEN RA([a EXCEPT !.mode = viewStatus], <<RefreshStatusCmd("leave")>>)
    ELSE updateCurrentViewKey(a, key, remotes)

\* the command the shell issues for the diff of the stash under the cursor
StashDiffCmd(m) == Cmd("stashDiff", <<>>, <<m.stashes[m.cursor + 1].Index>>, "key")

\* AppModel.Update, tea.KeyMsg, case viewStashes
AppStashesKey(a, key, remotes) ==
    IF key \in {Keys.Right, "right"}
    THEN IF HasStash(a.stashes) /\ ~a.stashes.showHelp /\ ~a.stashes.confirmMode
         THEN RA([a EXCEPT !.stashes.diffModel = NewStashDiffModel(a.size[1], a.size[2]),
                           !.mode = viewStashDiff],
                 <<StashDiffCmd(a.stashes)>>)
         ELSE RA(a, <<>>)
    ELSE IF key \in {Keys.Left, "left", "esc", Keys.Quit}
            /\ ~a.stashes.showHelp /\ ~a.stashes.confirmMode
    THEN RA([a EXCEPT !.mode = viewStatus], <<RefreshStatusCmd("leave")>>)
    ELSE updateCurrentViewKey(a, key, remotes)

\* a shell that reloads the stash list when the Stash-Diff view is left
AppStashDiffKeyRefreshing(a, key, remotes) ==
    IF key \in {Keys.Left, "left", "esc"} /\ ~a.stashes.diffModel.showHelp
    THEN IF a.stashes.diffModel.viewingHunk
         THEN RA([a EXCEPT !.stashes.diffModel.viewingHunk = FALSE,
                           !.stashes.diffModel.scrollOffset = 0], <<>>)
         ELSE RA([a EXCEPT !.mode = viewStashes], <<RefreshStashesCmd("leave")>>)
    ELSE IF key = Keys.Quit /\ ~a.stashes.diffModel.showHelp
    THEN RA([a EXCEPT !.mode = viewStashes], <<RefreshStashesCmd("leave")>>)
    ELSE updateCurrentViewKey(a, key, remotes)

\* AppModel.Update, tea.KeyMsg, case viewStashDiff
AppStashDiffKey(a, key, remotes) ==
    IF key \in {Keys.Left, "left", "esc"} /\ ~a.stashes.diffModel.showHelp
    THEN IF a.stashes.diffModel.viewingHunk
         THEN RA([a EXCEPT !.stashes.diffModel.viewingHunk = FALSE,
                           !.stashes.diffModel.scrollOffset = 0], <<>>)
         ELSE RA([a EXCEPT !.mode = viewStashes], <<>>)
    ELSE IF key = Keys.Quit /\ ~a.stashes.diffModel.showHelp
    THEN RA([a EXCEPT !.mode = viewStashes], <<>>)
    ELSE updateCurrentViewKey(a, key, remotes)

\* AppModel.Update, tea.KeyMsg
AppUpdateKey(a, key, remotes) ==
    IF key = "ctrl+c" THEN RA(a, <<QuitCmd>>)
    ELSE IF a.mode = viewStatus THEN AppStatusKey(a, key, remotes)
    ELSE IF a.mode \in {viewFileDiff, viewFullDiff} THEN AppDiffKey(a, key, remotes)
    ELSE IF a.mode = viewBranches THEN AppBranchesKey(a, key, remotes)
    ELSE IF a.mode = viewStashes THEN AppStashesKey(a, key, remotes)
    ELSE IF a.mode = viewStashDiff THEN AppStashDiffKey(a, key, remotes)
    ELSE updateCurrentViewKey(a, key, remotes)

\* AppModel.Update, tickMsg: whether the status refresh is batched
AppTickRefreshes(a) == a.mode = viewStatus /\ ~isBlocking(a.status)

\* tickCmd: the timer that sends the next tickMsg
tickCmd == Cmd("tick", <<>>, <<>>, "tick")

\* the timers among the commands batched
Armed(cmds) == Len(SelectSeq(cmds, LAMBDA c : c.kind = "tick"))

\* a tick that arms the next one only when it refreshes
AppUpdateTickWhenRefreshing(a) ==
    IF AppTickRefreshes(a) THEN <<RefreshStatusCmd("tick"), tickCmd>> ELSE <<>>

\* AppModel.Update, tickMsg: the commands batched
AppUpdateTick(a) ==
    IF AppTickRefreshes(a) THEN <<RefreshStatusCmd("tick"), tickCmd>> ELSE <<tickCmd>>

\* the zero value of AppModel.log, as far as its size goes
ZeroLogModel == [width |-> 0, height |-> 0]

\* a resize that reaches the active view alone
AppUpdateSizeActiveOnly(a, w, h) ==
    LET stored == [a EXCEPT !.size = <<w, h>>]
    IN IF a.mode \in {viewFileDiff, viewFullDiff}
       THEN [stored EXCEPT !.diff = DiffUpdateSize(a.diff, w, h)]
       ELSE IF a.mode = viewBranches
       THEN [stored EXCEPT !.branches = BranchesUpdateSize(a.branches, w, h)]
       ELSE IF a.mode = viewStashes
       THEN [stored EXCEPT !.stashes = StashesUpdateSize(a.stashes, w, h)]
       ELSE IF a.mode = viewStashDiff
       THEN [stored EXCEPT !.stashes.diffModel =
                               StashDiffUpdateSize(a.stashes.diffModel, w, h)]
       ELSE [stored EXCEPT !.status = StatusUpdateSize(a.status, w, h)]

\* AppModel.Update, tea.WindowSizeMsg: stored in every view, then delegated
AppUpdateSize(a, w, h) ==
    LET stored == [a EXCEPT !.size = <<w, h>>,
                            !.status = StatusUpdateSize(a.status, w, h),
                            !.diff = DiffUpdateSize(a.diff, w, h),
                            !.branches = BranchesUpdateSize(a.branches, w, h),
                            !.stashes = StashesUpdateSize(a.stashes, w, h),
                            !.log = [width |-> w, height |-> h]]
    IN IF a.mode = viewStashDiff
       THEN [stored EXCEPT !.stashes.diffModel =
                               StashDiffUpdateSize(stored.stashes.diffModel, w, h)]
       ELSE stored

\* a message a finished command sends
Msg(type, st, bs, d, ut, bl, name, err) ==
    [type |-> type, st |-> st, bs |-> bs, d |-> d, ut |-> ut, bl |-> bl,
     sl |-> <<>>, name |-> name, err |-> err]
StatusMsg(st, bs) == Msg("statusMsg", st, bs, NoDiff, <<>>, <<>>, <<>>, NoErr)
ErrMsg(err) == Msg("errMsg", NoStatus, NoBranchStatus, NoDiff, <<>>, <<>>, <<>>, err)
CombinedDiffMsg(d, ut) == Msg("combinedDiffMsg", NoStatus, NoBranchStatus, d, ut, <<>>, <<>>, NoErr)
BranchesMsg(bl) == Msg("branchesMsg", NoStatus, NoBranchStatus, NoDiff, <<>>, bl, <<>>, NoErr)
BranchDeleteFailedMsg(name, err) ==
    Msg("branchDeleteFailedMsg", NoStatus, NoBranchStatus, NoDiff, <<>>, <<>>, name, err)
StashesMsg(sl) ==
    [Msg("stashesMsg", NoStatus, NoBranchStatus, NoDiff, <<>>, <<>>, <<>>, NoErr)
        EXCEPT !.sl = sl]
StashDiffMsg(d) == Msg("stashDiffMsg", NoStatus, NoBranchStatus, d, <<>>, <<>>, <<>>, NoErr)

\* AppModel.updateCurrentView for a command's message: the active view's
\* Update, which ignores the message types it has no case for
updateCurrentViewMsg(a, msg) ==
    IF a.mode \in {viewFileDiff, viewFullDiff}
    THEN IF msg.type = "combinedDiffMsg"
         THEN [a EXCEPT !.diff = DiffUpdateDiffMsg(a.diff, msg.d, msg.ut)]
         ELSE IF msg.type = "errMsg" THEN [a EXCEPT !.diff = DiffUpdateErrMsg(a.diff, msg.err)]
         ELSE a
    ELSE IF a.mode = viewBranches
    THEN IF msg.type = "branchesMsg"
         THEN [a EXCEPT !.branches = BranchesUpdateBranchesMsg(a.branches, msg.bl)]
         ELSE IF msg.type = "branchDeleteFailedMsg"
         THEN [a EXCEPT !.branches = BranchesUpdateDeleteFailed(a.branches, msg.name, msg.err)]
         ELSE IF msg.type = "errMsg"
         THEN [a EXCEPT !.branches = BranchesUpdateErrMsg(a.branches, msg.err)]
         ELSE a
    ELSE IF a.mode = viewStashes
    THEN IF msg.type = "stashesMsg"
         THEN [a EXCEPT !.stashes = StashesUpdateStashesMsg(a.stashes, msg.sl)]
         ELSE IF msg.type = "stashDiffMsg"
         THEN [a EXCEPT !.stashes = StashesUpdateDiffMsg(a.stashes, msg.d)]
         ELSE IF msg.type = "errMsg"
         THEN [a EXCEPT !.stashes = StashesUpdateErrMsg(a.stashes, msg.err)]
         ELSE a
    ELSE IF a.mode = viewStashDiff
    THEN IF msg.type = "stashDiffMsg"
         THEN [a EXCEPT !.stashes.diffModel = StashDiffUpdateDiffMsg(a.stashes.diffModel, msg.d)]
         ELSE IF msg.type = "errMsg"
         THEN [a EXCEPT !.stashes.diffModel = StashDiffUpdateErrMsg(a.stashes.diffModel, msg.err)]
         ELSE a
    ELSE IF msg.type = "statusMsg"
         THEN [a EXCEPT !.status = StatusUpdateStatusMsg(a.status, msg.st, msg.bs)]
         ELSE IF msg.type = "errMsg"
         THEN [a EXCEPT !.status = StatusUpdateErrMsg(a.status, msg.err)]
         ELSE a

StatusKinds ==
    {"refreshStatus", "toggleStage", "stageFiles", "unstageFiles", "stageAll",
     "unstageAll", "discard", "stash", "commit", "push", "pushSetUpstream"}
DiffKinds == {"refreshCombinedDiff", "toggleHunk", "stageHunk", "unstageHunk", "discardHunk"}
BranchKinds ==
    {"refreshBranches", "checkoutBranch", "createBranch", "deleteBranch", "forceDeleteBranch"}
StashKinds == {"refreshStashes", "applyStash", "popStash", "dropStash"}

\* strings.Contains(err.Error(), "not fully merged"), over the error texts
\* git is modelled to answer with
NotMergedError == "error: the branch is not fully merged"
NotFullyMerged(err) == err = NotMergedError

\* a doDeleteBranch that asks for a force delete after any failure
FailureMsgAlwaysForce(c, err) ==
    IF c.kind = "deleteBranch" THEN BranchDeleteFailedMsg(c.arg, err) ELSE ErrMsg(err)

\* the message of a finished command whose git call failed with err
FailureMsg(c, err) ==
    IF c.kind = "deleteBranch" /\ NotFullyMerged(err)
    THEN BranchDeleteFailedMsg(c.arg, err)
    ELSE ErrMsg(err)

\* the messages command c can end in, for the repository answers E allows:
\* every command can fail; a command that succeeds ends in its refresh
Outcomes(c, E) ==
    {FailureMsg(c, err) : err \in E.errors}
    \cup (IF c.kind \in StatusKinds
          THEN {StatusMsg(st, bs) : st \in E.statuses, bs \in E.branchStatuses} ELSE {})
    \cup (IF c.kind \in DiffKinds
          THEN {CombinedDiffMsg(d, ut) : d \in E.diffs, ut \in E.untracked} ELSE {})
    \cup (IF c.kind \in BranchKinds THEN {BranchesMsg(bl) : bl \in E.branchLists} ELSE {})
    \cup (IF c.kind \in StashKinds THEN {StashesMsg(sl) : sl \in E.stashLists} ELSE {})
    \cup (IF c.kind = "stashDiff" THEN {StashDiffMsg(d) : d \in E.stashDiffs} ELSE {})

RemoveAt(s, i) == SubSeq(s, 1, i - 1) \o SubSeq(s, i + 1, Len(s))

----------------------------------------------------------------------------
(* The state machine *)

SetApp(a) ==
    /\ mode' = a.mode
    /\ status' = a.status
    /\ diff' = a.diff
    /\ branches' = a.branches
    /\ stashes' = a.stashes
    /\ log' = a.log
    /\ currentFiles' = a.currentFiles
    /\ size' = a.size

Quits(cmds) == \E i \in 1..Len(cmds) : cmds[i].kind \in {"quit", "commitEdit"}

\* the deferred commands among those batched
Deferred(cmds) == SelectSeq(cmds, LAMBDA c : c.kind \notin {"quit", "commitEdit"})

\* what has been typed stays within what E lets the user type: E.words into a
\* confirmation buffer, E.texts into a text input
InputsBounded(a, E) ==
    /\ a.status.confirmInput \in E.words
    /\ a.status.stashInput \in E.texts
    /\ a.status.commitInput \in E.texts
    /\ a.diff.confirmInput \in E.words
    /\ a.branches.branchInput \in E.texts
    /\ a.branches.deleteInput \in E.texts

\* the active view is taking typed text
Typing ==
    \/ mode = viewStatus /\ ~status.showHelp
       /\ (status.confirmMode \in {confirmDiscard, confirmStash}
           \/ status.stashMode # stashNone \/ status.commitMode)
    \/ mode \in {viewFileDiff, viewFullDiff} /\ ~diff.showHelp /\ diff.confirmMode
    \/ mode = viewBranches /\ ~branches.showHelp
       /\ (branches.deleteConfirmMode \/ branches.inputMode)

\* a key event is dispatched to AppModel.Update
KeyMsg(E) ==
    /\ ~quit
    /\ \E key \in (IF Typing THEN E.typed ELSE E.keys), remotes \in E.remotes :
        LET r == AppUpdateKey(App, key, remotes)
        IN /\ InputsBounded(r.a, E)
           /\ Len(pending) + Len(Deferred(r.cmds)) <= E.maxPending
           /\ SetApp(r.a)
           /\ pending' = pending \o Deferred(r.cmds)
           /\ quit' = Quits(r.cmds)
           /\ ticks' = ticks + Armed(r.cmds)
           /\ UNCHANGED <<output, parsed>>

\* a tick fires: AppModel.Update, tickMsg
Tick(E) ==
    /\ ~quit
    /\ ticks > 0
    /\ LET cmds == AppUpdateTick(App)
           issued == SelectSeq(cmds, LAMBDA c : c.kind # "tick")
       IN /\ Len(pending) + Len(issued) <= E.maxPending
          /\ pending' = pending \o issued
          /\ ticks' = ticks - 1 + Armed(cmds)
    /\ UNCHANGED <<mode, status, diff, branches, stashes, log, currentFiles, size, quit,
                   output, parsed>>

\* the terminal is resized: AppModel.Update, tea.WindowSizeMsg
Resize(E) ==
    /\ ~quit
    /\ \E wh \in E.sizes : SetApp(AppUpdateSize(App, wh[1], wh[2]))
    /\ UNCHANGED <<pending, ticks, quit, output, parsed>>

\* a command in flight finishes and its message is dispatched
Complete(E) ==
    /\ ~quit
    /\ \E i \in 1..Len(pending) : \E msg \in Outcomes(pending[i], E) :
        /\ SetApp(updateCurrentViewMsg(App, msg))
        /\ pending' = RemoveAt(pending, i)
    /\ UNCHANGED <<ticks, quit, output, parsed>>

\* AppModel.Init: the status refresh and the first tick
InitApp ==
    /\ mode = viewStatus
    /\ status = NewStatusModelWithHelp(FALSE)
    /\ diff = ZeroDiffModel
    /\ branches = NewBranchesModel
    /\ stashes = NewStashesModelWithOptions(FALSE)
    /\ log = ZeroLogModel
    /\ currentFiles = <<>>
    /\ size = <<0, 0>>
    /\ pending = <<RefreshStatusCmd("init")>>
    /\ ticks = 1
    /\ quit = FALSE

Init ==
    /\ InitApp
    /\ output = <<"">>
    /\ parsed = Unparsed

\* git.GetDiff, git.GetStagedDiff: parseDiff runs on what git printed
ParseOutput ==
    /\ ~parsed.done
    /\ parsed' = parseDiff(output)
    /\ UNCHANGED <<appVars, output>>

\* Hunk.GeneratePatch on a hunk of the parsed diff and the file that owns it
MakePatch ==
    /\ parsed.done /\ ~parsed.fault
    /\ \E f \in 1..Len(parsed.Files) : \E h \in 1..Len(parsed.Files[f].Hunks) :
        LET patch == GeneratePatch(parsed.Files[f].Hunks[h], parsed.Files[f])
        IN /\ Len(patch) <= MaxLines + 1
           /\ output' = patch
           /\ parsed' = Unparsed
    /\ UNCHANGED appVars

----------------------------------------------------------------------------
(* What the repository and the user may do in each specification *)

Snap(staged, unstaged, untracked) ==
    [Staged |-> staged, Unstaged |-> unstaged, Untracked |-> untracked, nil |-> FALSE]

Paths == {"a", "b", "c"}

BranchStatus(name, remote, ahead) == [Name |-> name, Remote |-> remote, Ahead |-> ahead]

NoUntracked == [p \in Paths |-> NoFileDiff]

EmptyDiff == CombinedDiff(<<>>, <<>>)

Main == <<"m">>

GitFailed == "git failed"

\* the user and the repository of a specification
Env(keys, typed, words, texts, statuses, diffs, branchLists, errors, maxPending) ==
    [keys |-> keys, typed |-> typed, words |-> words, texts |-> texts,
     remotes |-> {Remotes(FALSE, <<>>)},
     statuses |-> statuses, branchStatuses |-> {BranchStatus("main", "", 0)},
     diffs |-> diffs, untracked |-> {NoUntracked}, branchLists |-> branchLists,
     stashLists |-> {<<>>}, stashDiffs |-> {EmptyDiff},
     errors |-> errors, sizes |-> {<<80, 24>>}, maxPending |-> maxPending]

Snap0 == Snap(<<>>, <<>>, <<>>)
Snap1 == Snap(<<>>, <<"b">>, <<>>)
Snap3 == Snap(<<"a">>, <<"b">>, <<"c">>)

\* selection and visual mode in the Status view, under refreshes
ESelect ==
    Env({"j", "k", "g", "G", "h", "v", "V", "esc", "q"}, {}, {<<>>}, {<<>>},
        {Snap0, Snap1, Snap3}, {EmptyDiff}, {<<Branch(Main, TRUE)>>}, {GitFailed},
        MaxPending)

\* the file operations of the Status view on the cursor item and on selections
ETargets ==
    Env({"j", "h", "v", " ", "d", "s"}, {"y", "e", "s", "enter", "esc"},
        {<<>>, <<"y">>, <<"y", "e">>, Yes}, {<<>>},
        {Snap3}, {EmptyDiff}, {<<Branch(Main, TRUE)>>}, {GitFailed},
        MaxInFlight)

\* staging keys pressed while earlier commands are still in flight
ERace ==
    Env({"j", "h", " "}, {}, {<<>>}, {<<>>},
        {Snap3}, {EmptyDiff}, {<<Branch(Main, TRUE)>>}, {GitFailed},
        MaxPending)

\* the tick against the blocking states of the Status view and the Diff view
ETick ==
    Env({"j", "h", "v", "?", "d", "s", "c", "i", "esc"}, {"esc"}, {<<>>}, {<<>>},
        {Snap3}, {EmptyDiff}, {<<Branch(Main, TRUE)>>}, {GitFailed},
        MaxInFlight)

\* one changed line of file "b", as an unstaged hunk, as a staged hunk, and
\* beside a staged hunk of file "a"
FileHeader(path) == <<"diff --git", path>>
HunkA == Hunk("a", 0, "@@ -1 +1 @@", <<Line("removed", "p"), Line("added", "q")>>)
HunkB == Hunk("b", 0, "@@ -2 +2 @@", <<Line("added", "x")>>)
DiffUnstaged == CombinedDiff(<<>>, <<FileDiff("b", FileHeader("b"), <<HunkB>>)>>)
DiffStaged == CombinedDiff(<<FileDiff("b", FileHeader("b"), <<HunkB>>)>>, <<>>)
DiffBoth ==
    CombinedDiff(<<FileDiff("a", FileHeader("a"), <<HunkA>>)>>,
                 <<FileDiff("b", FileHeader("b"), <<HunkB>>)>>)

\* what the user types into a confirmation: the word, or the word with a
\* wrong letter somewhere, which backspace takes back
YesOrTypo ==
    {<<>>, <<"y">>, <<"y", "e">>, Yes, <<"x">>, <<"y", "x">>, <<"y", "e", "x">>}

\* the typed confirmations of the Status view and of the Diff view
EConfirm ==
    Env({"i", "j", "d", "s", " ", "esc"},
        {"y", "e", "s", "x", "backspace", "enter", "esc"}, YesOrTypo, {<<>>},
        {Snap1}, {DiffUnstaged, DiffStaged, DiffBoth}, {<<Branch(Main, TRUE)>>}, {},
        MaxInFlight)

\* a confirmation opened while the refresh of an earlier operation is on its way
EPendingConfirm ==
    Env({"j", "v", " ", "d", "s", "esc"},
        {"y", "e", "s", "enter", "esc"}, YesOrTypo, {<<>>},
        {Snap1, Snap3}, {EmptyDiff}, {<<Branch(Main, TRUE)>>}, {},
        MaxInFlight)

Feature == <<"f">>

\* the Branches view: checkout, delete with its typed name, force delete
EBranches ==
    Env({"b", "j", "d", "enter", "y", "n", "esc"}, {"f", "m", "enter", "esc"},
        {<<>>}, {<<>>, Feature, Main},
        {Snap0}, {EmptyDiff},
        {<<Branch(Main, TRUE), Branch(Feature, FALSE)>>,
         <<Branch(Main, FALSE), Branch(Feature, TRUE)>>},
        {GitFailed, NotMergedError},
        MaxInFlight)

\* the stash lists of a repository with up to two stashes
Stash0 == Stash(0, "WIP on main")
Stash1 == Stash(1, "On main: fix")
StashLists == {<<>>, <<Stash0, Stash1>>}

\* stashes: open the view, move, apply, pop, drop, answer, look at a diff
EStashes ==
    [Env({"e", "j", "a", "p", "d", "y", "n", "l", "h", "?", "esc"}, {"esc"},
         {<<>>}, {<<>>}, {Snap0}, {EmptyDiff}, {<<>>}, {}, MaxInFlight)
        EXCEPT !.stashLists = StashLists,
               !.stashDiffs = {DiffUnstaged, DiffBoth}]

\* the one unstaged hunk of file "b", open in the File Diff view, is staged
EEmptied ==
    Env({"l", "i", "j", " ", "u", "h", "?"}, {"esc"}, {<<>>}, {<<>>},
        {Snap1}, {DiffUnstaged, DiffStaged}, {<<>>}, {GitFailed}, MaxInFlight)

\* the tick in every view and in their sub-modes
ETicking ==
    [Env({"b", "e", "l", "h", "?"}, {"esc"}, {<<>>}, {<<>>},
         {Snap1}, {DiffUnstaged}, {<<Branch(Main, TRUE), Branch(Feature, FALSE)>>}, {}, MaxPending)
        EXCEPT !.stashLists = {<<Stash0>>},
               !.stashDiffs = {DiffUnstaged}]

\* the Branches view when a delete fails while another sub-mode is open
EStacked ==
    Env({"b", "j", "d", "n", "?", "y", "esc"}, {"f", "y", "enter", "esc"},
        {<<>>}, {<<>>, Feature},
        {Snap0}, {EmptyDiff},
        {<<Branch(Main, TRUE), Branch(Feature, FALSE)>>},
        {NotMergedError},
        MaxInFlight)

\* the stash list once its first entry is gone: the second one is stash 0 now
Stash1Renumbered == Stash(0, "On main: fix")

\* popping and dropping while the list of an earlier pop or drop is on its way
ERenumber ==
    [Env({"e", "j", "a", "p", "d", "y", "n", "esc"}, {"esc"},
         {<<>>}, {<<>>}, {Snap0}, {EmptyDiff}, {<<>>}, {GitFailed}, MaxInFlight)
        EXCEPT !.stashLists = {<<Stash0, Stash1>>, <<Stash1Renumbered>>}]

\* what git.GetRemotes may answer: a failure, no remote, two remotes
PushRemotes == {Remotes(TRUE, <<>>), Remotes(FALSE, <<>>), Remotes(FALSE, <<"origin", "fork">>)}

\* push: a branch without upstream, with an upstream and ahead of it, with
\* an upstream and level with it
EPush ==
    [Env({"p", "j", "y", "n", "x", "esc"}, {"esc"}, {<<>>}, {<<>>}, {Snap1, Snap3}, {EmptyDiff},
         {<<>>}, {GitFailed}, MaxInFlight)
        EXCEPT !.remotes = PushRemotes,
               !.branchStatuses = {BranchStatus("main", "", 0),
                                   BranchStatus("main", "origin/main", 1),
                                   BranchStatus("main", "origin/main", 0)}]

\* the views: open each of them, open and close its help, move, leave
EViews ==
    [Env({"?", "i", "b", "e", "l", "h", "q", "esc"}, {"esc"}, {<<>>}, {<<>>},
         {Snap1}, {DiffBoth}, {<<Branch(Main, TRUE), Branch(Feature, FALSE)>>},
         {}, MaxInFlight)
        EXCEPT !.stashLists = {<<Stash0, Stash1>>},
               !.stashDiffs = {DiffBoth}]

\* the Top prefix: move and press Top in the lists of the four views, switch
\* views
ETop ==
    [Env({"g", "j", "i", "b", "e", "esc"}, {"esc"}, {<<>>}, {<<>>},
         {Snap3}, {DiffBoth}, {<<Branch(Main, TRUE), Branch(Feature, FALSE)>>},
         {}, MaxInFlight)
        EXCEPT !.stashLists = {<<Stash0, Stash1>>},
               !.stashDiffs = {DiffBoth}]

\* diffs of one and two hunks, of the working tree and of a stash, seen
\* whole or through the filter of one file
EDetail ==
    [Env({"i", "l", "j", "h", "e"}, {"esc"}, {<<>>}, {<<>>},
         {Snap3}, {DiffUnstaged, DiffBoth}, {<<>>}, {}, MaxInFlight)
        EXCEPT !.stashLists = {<<Stash0>>},
               !.stashDiffs = {DiffUnstaged, DiffBoth}]

\* the cursor of every view: lists of two and three items, moved in, left
\* and come back to
ECursor ==
    [Env({"j", "i", "b", "e", "l", "esc"}, {"esc"}, {<<>>}, {<<>>},
         {Snap3}, {DiffBoth}, {<<Branch(Main, FALSE), Branch(Feature, FALSE)>>},
         {}, MaxInFlight)
        EXCEPT !.stashLists = {<<Stash0, Stash1>>},
               !.stashDiffs = {DiffBoth}]

\* hunks of file "b": two that add the same line at different places and so
\* share their stable key, one that changes another line, one of context only
HunkX1 == Hunk("b", 0, "@@ -1 +1,2 @@", <<Line("added", "+x")>>)
HunkX2 == Hunk("b", 0, "@@ -5 +6,2 @@", <<Line("added", "+x")>>)
HunkPQ == Hunk("b", 0, "@@ -9 +11 @@", <<Line("removed", "-p"), Line("added", "+q")>>)
HunkCtx == Hunk("b", 0, "@@ -20 +22 @@", <<Line("context", " c")>>)
OrderHunks == {HunkX1, HunkX2, HunkPQ, HunkCtx}

\* the lists of one to MaxHunks different hunks
HunkLists ==
    {hs \in UNION {[1..n -> OrderHunks] : n \in 1..MaxHunks} :
        \A i, j \in 1..Len(hs) : i # j => hs[i] # hs[j]}

\* the Full Diff view refreshed with the hunks of one file in any order
EOrder ==
    Env({"i", "j", "esc"}, {"esc"}, {<<>>}, {<<>>}, {Snap1},
        {CombinedDiff(<<>>, <<FileDiff("b", FileHeader("b"), hs)>>) : hs \in HunkLists},
        {<<>>}, {}, MaxInFlight)

\* hunk detail in a window of 6 rows, which shows one line, and of 24 rows
EScroll ==
    [Env({"i", "l", "j", "k", "G", "h", " "}, {"esc"}, {<<>>}, {<<>>},
         {Snap1}, {DiffUnstaged, DiffBoth}, {<<>>}, {}, MaxInFlight)
        EXCEPT !.sizes = {<<80, 6>>, <<80, 24>>}]

\* resizing: every view is visited, the terminal takes one of two sizes
EResize ==
    [Env({"i", "b", "e", "l", "h", "esc"}, {"esc"}, {<<>>}, {<<>>},
         {Snap1}, {DiffUnstaged}, {<<>>}, {}, MaxInFlight)
        EXCEPT !.stashLists = {<<Stash0, Stash1>>},
               !.stashDiffs = {DiffUnstaged},
               !.sizes = {<<80, 24>>, <<100, 30>>}]

\* file "a" staged and file "b" staged and unstaged; the untracked file "c"
\* as git diff --no-index prints it, under the path it was given
HunkBStaged == Hunk("b", 1, "@@ -2 +2 @@", <<Line("added", "+x")>>)
DiffMixed ==
    CombinedDiff(<<FileDiff("a", FileHeader("a"), <<HunkA>>),
                   FileDiff("b", FileHeader("b"), <<HunkBStaged>>)>>,
                 <<FileDiff("b", FileHeader("b"), <<HunkPQ>>)>>)
\* two unstaged hunks of file "b", and the same after the second was staged
DiffTwoUnstaged == CombinedDiff(<<>>, <<FileDiff("b", FileHeader("b"), <<HunkB, HunkPQ>>)>>)
DiffSecondStaged ==
    CombinedDiff(<<FileDiff("b", FileHeader("b"), <<HunkPQ>>)>>,
                 <<FileDiff("b", FileHeader("b"), <<HunkB>>)>>)
NoIndexC ==
    <<FileDiff("/w/c", FileHeader("/w/c"),
               <<Hunk("/w/c", 0, "@@ -0,0 +1 @@", <<Line("added", "+n")>>)>>)>>
UntrackedC ==
    [p \in Paths |-> IF p = "c" THEN GetUntrackedFileDiff("c", NoIndexC) ELSE NoFileDiff]

\* the Diff view entered from the Status view on the cursor file or on a
\* selection, and entered whole
EFilter ==
    [Env({"j", "h", "l", "i", "esc"}, {"esc"}, {<<>>}, {<<>>},
         {Snap3}, {DiffMixed, DiffTwoUnstaged, DiffSecondStaged}, {<<>>}, {}, MaxInFlight)
        EXCEPT !.untracked = {NoUntracked, UntrackedC}]

NextSelect == KeyMsg(ESelect) \/ Tick(ESelect) \/ Complete(ESelect)

SpecSelect == Init /\ [][NextSelect]_vars

NextRace == KeyMsg(ERace) \/ Complete(ERace)

SpecRace == Init /\ [][NextRace]_vars

NextTick == KeyMsg(ETick) \/ Tick(ETick) \/ Complete(ETick)

SpecTick == Init /\ [][NextTick]_vars

NextConfirm == KeyMsg(EConfirm) \/ Complete(EConfirm)

SpecConfirm == Init /\ [][NextConfirm]_vars

NextBranches == KeyMsg(EBranches) \/ Complete(EBranches)

SpecBranches == Init /\ [][NextBranches]_vars

NextTargets == KeyMsg(ETargets) \/ Complete(ETargets)

SpecTargets == Init /\ [][NextTargets]_vars

NextStashes == KeyMsg(EStashes) \/ Complete(EStashes)

SpecStashes == Init /\ [][NextStashes]_vars

NextPush == KeyMsg(EPush) \/ Complete(EPush)

SpecPush == Init /\ [][NextPush]_vars

NextViews == KeyMsg(EViews) \/ Complete(EViews)

SpecViews == Init /\ [][NextViews]_vars

NextTop == KeyMsg(ETop) \/ Complete(ETop)

SpecTop == Init /\ [][NextTop]_vars

NextDetail == KeyMsg(EDetail) \/ Complete(EDetail)

SpecDetail == Init /\ [][NextDetail]_vars

\* the key names a terminal sends
AllKeys ==
    Printable \cup {"enter", "esc", "backspace", "left", "right", "up", "down",
                    "tab", "ctrl+c"}

\* the keys whose handling is modelled in the present state: all but the
\* key that opens the Log view
ModelledKeys ==
    IF mode = viewStatus /\ ~Typing /\ status.confirmMode = confirmNone
    THEN AllKeys \ {Keys.Log} ELSE AllKeys

NoRemotes == Remotes(FALSE, <<>>)

\* the deferred commands AppModel.Update issues for a key in the present state
Issued(key) == Deferred(AppUpdateKey(App, key, NoRemotes).cmds)

SeqToSet(s) == {s[i] : i \in 1..Len(s)}

----------------------------------------------------------------------------
(* Visual mode selects the range between anchor and cursor *)

\* C1: while visual mode is on in the Status view, the selected indices are
\* exactly the indices from min(visualStart, cursor) to max(visualStart,
\* cursor); nothing selected before visual mode, or before the latest cursor
\* move, stays selected outside that range.
C1_VisualRange ==
    status.visualMode =>
        status.selected =
            Min(status.visualStart, status.cursor)..Max(status.visualStart, status.cursor)

\* visual mode after the cursor has moved above the anchor
C1_Witness ==
    /\ status.visualMode
    /\ status.cursor < status.visualStart
    /\ Cardinality(status.selected) >= 2

----------------------------------------------------------------------------
(* The effective targets of the file operations *)

\* the effective targets as the specification words them: the selected items
\* together with the cursor item, or the cursor item alone
EffectiveTargets ==
    LET idx == IF status.selected # {} THEN status.selected \cup {status.cursor}
               ELSE {status.cursor}
    IN {status.items[i + 1] : i \in {j \in idx : j >= 0 /\ j < Len(status.items)}}

\* the items a command of the Status view makes its git calls for
TargetsOf(c) == {Item(c.ops[i].path, c.ops[i].section) : i \in 1..Len(c.ops)}

\* C2: in every reachable state of the Status view, whatever key is pressed,
\* a toggle, a discard and a stash of files act on exactly the effective
\* targets (the selected items plus the cursor item when something is
\* selected, else the cursor item alone), each once; stage and unstage act on
\* the effective targets of the sections they apply to; entering the file
\* diff opens the paths of the effective targets.
C2_EffectiveTargets ==
    mode = viewStatus =>
        \A key \in ModelledKeys :
            LET r == AppUpdateKey(App, key, NoRemotes)
            IN /\ \A c \in SeqToSet(Deferred(r.cmds)) :
                    /\ (c.kind \in {"toggleStage", "discard"}
                        \/ (c.kind = "stash" /\ c.ops[1].op = "StashFiles"))
                       => /\ TargetsOf(c) = EffectiveTargets
                          /\ Len(c.ops) = Cardinality(EffectiveTargets)
                    /\ c.kind = "stageFiles"
                       => TargetsOf(c) = {it \in EffectiveTargets : it.Section # "staged"}
                    /\ c.kind = "unstageFiles"
                       => TargetsOf(c) = {it \in EffectiveTargets : it.Section = "staged"}
               /\ r.a.mode = viewFileDiff
                  => /\ {f.Path : f \in SeqToSet(r.a.currentFiles)}
                        = {it.Path : it \in EffectiveTargets}
                     /\ Len(r.a.currentFiles) = Cardinality(EffectiveTargets)

\* a toggle in flight that was issued for one selected item and the cursor
\* item, the cursor being on an item that is not selected
C2_Witness ==
    /\ mode = viewStatus
    /\ Cardinality(status.selected) = 1
    /\ status.cursor \notin status.selected
    /\ \E i \in 1..Len(pending) :
        pending[i].kind = "toggleStage" /\ Len(pending[i].ops) = 2

----------------------------------------------------------------------------
(* Discard in the Status view *)

\* the git call the specification gives a discard of an item of a section
DiscardCallOf(section) ==
    CASE section = "staged" -> "UnstageFile"
      [] section = "unstaged" -> "DiscardFile"
      [] section = "untracked" -> "DiscardUntracked"

DiscardCalls == {"DiscardFile", "DiscardUntracked"}

\* C7: in every reachable state of the Status view, a key issues a discard,
\* or any command that calls DiscardFile or DiscardUntracked, only when it
\* is Enter in the discard confirmation with the buffer "yes"; the command
\* then makes, for each effective target, the call of its section: staged
\* items are unstaged, unstaged items get DiscardFile, untracked items get
\* DiscardUntracked. No command in flight calls DiscardFile or
\* DiscardUntracked other than such a discard.
C7_DiscardPerSection ==
    /\ mode = viewStatus =>
        \A key \in ModelledKeys : \A c \in SeqToSet(Issued(key)) :
            (c.kind = "discard" \/ \E i \in 1..Len(c.ops) : c.ops[i].op \in DiscardCalls)
            => /\ key = "enter"
               /\ status.confirmMode = confirmDiscard
               /\ status.confirmInput = Yes
               /\ c.kind = "discard"
               /\ TargetsOf(c) = EffectiveTargets
               /\ \A i \in 1..Len(c.ops) : c.ops[i].op = DiscardCallOf(c.ops[i].section)
    /\ \A n \in 1..Len(pending) :
        \A i \in 1..Len(pending[n].ops) :
            pending[n].ops[i].op \in DiscardCalls
            => /\ pending[n].kind = "discard"
               /\ pending[n].ops[i].op = DiscardCallOf(pending[n].ops[i].section)

\* a confirmed discard in flight for a staged, an unstaged and an untracked item
C7_Witness ==
    \E n \in 1..Len(pending) :
        /\ pending[n].kind = "discard"
        /\ {pending[n].ops[i].op : i \in 1..Len(pending[n].ops)}
           = {"UnstageFile", "DiscardFile", "DiscardUntracked"}

----------------------------------------------------------------------------
(* Commands in flight *)

\* C4: at most one mutating command is in flight: between the issue of a
\* mutating command and the dispatch of its completion message no second
\* mutating command is issued.
C4_NoConcurrentMutations ==
    Cardinality({i \in 1..Len(pending) : pending[i].kind \in MutatingKinds}) <= 1

----------------------------------------------------------------------------
(* The periodic tick *)

\* the non-blocking states of the Status view as the specification lists them
NonBlocking ==
    /\ status.confirmMode = confirmNone
    /\ ~status.commitMode
    /\ status.stashMode = stashNone
    /\ ~status.showHelp
    /\ ~status.visualMode
    /\ status.selected = {}

\* C5: in every reachable state the tick handler batches a status refresh
\* exactly when the Status view is active and in a non-blocking state (no
\* confirmation, no commit input, no stash input, no help, no visual mode,
\* empty selection); and every step that puts a tick's refresh in flight
\* starts in such a state.
C5_TickRefresh ==
    /\ [](AppTickRefreshes(App) <=> (mode = viewStatus /\ NonBlocking))
    /\ [][(Len(pending') = Len(pending) + 1 /\ pending'[Len(pending')].by = "tick")
          => (mode = viewStatus /\ NonBlocking
              /\ pending' = Append(pending, RefreshStatusCmd("tick")))]_vars

\* a tick's refresh in flight while the Status view has become blocking
C5_Witness ==
    /\ mode = viewStatus
    /\ ~NonBlocking
    /\ \E i \in 1..Len(pending) : pending[i].by = "tick"

\* C6: when the result of a refresh that a tick requested is dispatched to
\* the Status view, the selection and visual mode stay as the user has them.
C6_TickRefreshKeepsInput ==
    [][\A i \in 1..Len(pending) :
        (pending[i].by = "tick" /\ pending' = RemoveAt(pending, i) /\ mode = viewStatus)
        => (status'.selected = status.selected
            /\ status'.visualMode = status.visualMode)]_vars

----------------------------------------------------------------------------
(* Typed confirmation *)

DiffViews == {viewFileDiff, viewFullDiff}

\* a confirmation that asks for the word is open in the active view
ConfirmOpen ==
    \/ mode = viewStatus /\ status.confirmMode \in {confirmDiscard, confirmStash}
    \/ mode \in DiffViews /\ diff.confirmMode

\* the confirmation buffer of the active view
Buffer == IF mode = viewStatus THEN status.confirmInput ELSE diff.confirmInput

\* the buffer after the active view's Update has handled the key
BufferAfter(key) ==
    IF mode = viewStatus THEN StatusUpdateKey(status, key, NoRemotes).m.confirmInput
    ELSE DiffUpdateKey(diff, key).m.confirmInput

\* C3: in every reachable state of the Status and Diff views, (1) a key
\* issues a file discard, a stash or a hunk discard only if it is Enter, a
\* typed confirmation is open and its buffer is exactly "yes"; (2) Enter in
\* an open confirmation whose buffer is not "yes" issues nothing and changes
\* nothing, so the confirmation stays open; (3) the buffer is what was typed:
\* it is empty when no confirmation is open, a lowercase letter handled by
\* the view is appended to it and backspace removes its last character.
C3_TypedConfirmation ==
    mode \in {viewStatus} \cup DiffViews =>
        /\ \A key \in ModelledKeys : \A c \in SeqToSet(Issued(key)) :
            c.kind \in {"discard", "stash", "discardHunk"}
            => (key = "enter" /\ ConfirmOpen /\ Buffer = Yes)
        /\ (ConfirmOpen /\ Buffer # Yes)
           => AppUpdateKey(App, "enter", NoRemotes) = RA(App, <<>>)
        /\ ~ConfirmOpen => Buffer = <<>>
        /\ ConfirmOpen
           => /\ \A key \in LowerLetters : BufferAfter(key) = Append(Buffer, key)
              /\ BufferAfter("backspace")
                 = (IF Buffer = <<>> THEN <<>> ELSE SubSeq(Buffer, 1, Len(Buffer) - 1))

\* a hunk discard in flight, issued from the Diff view's confirmation
C3_Witness ==
    /\ mode \in DiffViews
    /\ \E n \in 1..Len(pending) : pending[n].kind = "discardHunk"

----------------------------------------------------------------------------
(* Hunk discard *)

\* the hunk under the cursor of the Diff view is there and is unstaged
CursorHunkUnstaged ==
    /\ diff.cursor < Len(diff.hunks)
    /\ ~diff.hunks[diff.cursor + 1].Staged

\* C8: in every reachable state of the Diff view, whatever key is pressed,
\* the discard confirmation opens only when the hunk under the cursor is
\* unstaged, and a hunk discard is issued only for the hunk under the cursor
\* and only when its staged flag is false at that moment; no command in
\* flight calls DiscardHunk for a staged hunk.
C8_DiscardUnstagedOnly ==
    /\ mode \in DiffViews =>
        \A key \in ModelledKeys :
            LET r == AppUpdateKey(App, key, NoRemotes)
            IN /\ (~diff.confirmMode /\ r.a.diff.confirmMode) => CursorHunkUnstaged
               /\ \A c \in SeqToSet(Deferred(r.cmds)) :
                    (c.kind = "discardHunk"
                     \/ \E i \in 1..Len(c.ops) : c.ops[i].op = "DiscardHunk")
                    => /\ CursorHunkUnstaged
                       /\ c.ops = <<HunkOp("DiscardHunk",
                                           diff.hunks[diff.cursor + 1].FilePath, "unstaged",
                                           c.ops[1].file)>>
    /\ \A n \in 1..Len(pending) : \A i \in 1..Len(pending[n].ops) :
        pending[n].ops[i].op = "DiscardHunk" => pending[n].ops[i].section = "unstaged"

\* the confirmation is open with "yes" typed, and a refresh has meanwhile
\* turned the hunk under the cursor into a staged hunk
C8_Witness ==
    /\ mode \in DiffViews
    /\ diff.confirmMode
    /\ diff.confirmInput = Yes
    /\ diff.cursor < Len(diff.hunks)
    /\ diff.hunks[diff.cursor + 1].Staged

----------------------------------------------------------------------------
(* Branch delete *)

\* C9: no delete command is in flight that was issued for a branch the
\* branch list marked as current when the command was issued.
C9_NeverDeletesCurrent ==
    \A n \in 1..Len(pending) :
        pending[n].kind = "deleteBranch" => pending[n].ops[1].section # "current"

\* the force-delete confirmation is the sub-mode that takes the keys
ForcePrompt ==
    /\ mode = viewBranches
    /\ branches.forceDeleteMode
    /\ ~branches.showHelp
    /\ ~branches.deleteConfirmMode

\* the n-th command in flight is a delete whose message is dispatched in
\* this step
DeleteCompletes(n) ==
    /\ pending[n].kind = "deleteBranch"
    /\ pending' = RemoveAt(pending, n)

\* C10: in the Branches view, (1) the failure of a delete in flight with a
\* "not fully merged" error opens the force-delete confirmation for the name
\* the delete was issued for, and its failure with any other error sets the
\* error and leaves the force-delete confirmation and its name as they were;
\* (2) in the force-delete confirmation y issues a force delete of exactly
\* the pending name, n and Esc issue nothing and close it; (3) no other key
\* in any state issues a force delete; (4) the force-delete confirmation
\* opens, and its name is set, only in a step that dispatches the "not fully
\* merged" failure of a delete issued for that name.
C10_ForceDeleteAfterNotMerged ==
    /\ [](mode = viewBranches =>
            /\ \A n \in 1..Len(pending) : \A err \in {GitFailed, NotMergedError} :
                pending[n].kind = "deleteBranch" =>
                    LET b == updateCurrentViewMsg(App, FailureMsg(pending[n], err)).branches
                    IN IF err = NotMergedError
                       THEN b.forceDeleteMode /\ b.pendingDeleteBranch = pending[n].arg
                       ELSE /\ b.forceDeleteMode = branches.forceDeleteMode
                            /\ b.pendingDeleteBranch = branches.pendingDeleteBranch
                            /\ b.err = err
            /\ ForcePrompt =>
                /\ \A key \in {"y", "Y"} :
                    LET r == AppUpdateKey(App, key, NoRemotes)
                    IN /\ Len(r.cmds) = 1
                       /\ r.cmds[1].kind = "forceDeleteBranch"
                       /\ r.cmds[1].arg = branches.pendingDeleteBranch
                       /\ ~r.a.branches.forceDeleteMode
                /\ \A key \in {"n", "N", "esc"} :
                    LET r == AppUpdateKey(App, key, NoRemotes)
                    IN r.cmds = <<>> /\ ~r.a.branches.forceDeleteMode
            /\ \A key \in ModelledKeys : \A c \in SeqToSet(Issued(key)) :
                c.kind = "forceDeleteBranch"
                => (key \in {"y", "Y"} /\ ForcePrompt /\ c.arg = branches.pendingDeleteBranch))
    /\ [][((~branches.forceDeleteMode /\ branches'.forceDeleteMode)
           \/ (branches'.pendingDeleteBranch # branches.pendingDeleteBranch
               /\ branches'.pendingDeleteBranch # <<>>))
          => /\ mode = viewBranches
             /\ branches'.forceDeleteMode
             /\ NotFullyMerged(branches'.err)
             /\ \E n \in 1..Len(pending) :
                    DeleteCompletes(n) /\ branches'.pendingDeleteBranch = pending[n].arg]_vars

\* a force delete in flight for the branch whose delete was refused
C10_Witness ==
    /\ mode = viewBranches
    /\ \E n \in 1..Len(pending) :
        pending[n].kind = "forceDeleteBranch" /\ pending[n].arg = Feature

----------------------------------------------------------------------------
(* Stash operations *)

\* the commands of the given kinds among those a key issues
IssuedOfKind(key, kinds) == SelectSeq(Issued(key), LAMBDA c : c.kind \in kinds)

\* the index of the stash under the cursor
CursorStashIndex == <<stashes.stashes[stashes.cursor + 1].Index>>

\* C11: in the Stashes view the apply key issues the apply of the stash under
\* the cursor at once, with no confirmation opened; the pop and drop keys
\* only open the confirmation for their action; a pop or a drop is issued
\* only by y in the confirmation opened for that action; n and Esc close the
\* confirmation and issue no command.
C11_StashConfirmation ==
    mode = viewStashes =>
        \A key \in AllKeys :
            LET r == AppUpdateKey(App, key, NoRemotes)
                nav == ~stashes.showHelp /\ ~stashes.confirmMode
                ask == ~stashes.showHelp /\ stashes.confirmMode
            IN /\ (nav /\ key = "a" /\ HasStash(stashes)) =>
                      /\ Issued(key) =
                             <<Cmd("applyStash", <<Op("ApplyStash", "", "")>>,
                                   CursorStashIndex, "key")>>
                      /\ ~r.a.stashes.confirmMode
               /\ IssuedOfKind(key, {"applyStash"}) # <<>> => nav /\ key = "a"
               /\ (nav /\ key \in {"p", "d"} /\ HasStash(stashes)) =>
                      /\ Issued(key) = <<>>
                      /\ r.a.stashes.confirmMode
                      /\ r.a.stashes.confirmAction =
                             (IF key = "p" THEN stashActionPop ELSE stashActionDrop)
               /\ IssuedOfKind(key, {"popStash"}) # <<>> =>
                      /\ ask /\ key \in {"y", "Y"}
                      /\ stashes.confirmAction = stashActionPop
                      /\ Issued(key) =
                             <<Cmd("popStash", <<Op("PopStash", "", "")>>,
                                   CursorStashIndex, "key")>>
               /\ IssuedOfKind(key, {"dropStash"}) # <<>> =>
                      /\ ask /\ key \in {"y", "Y"}
                      /\ stashes.confirmAction = stashActionDrop
                      /\ Issued(key) =
                             <<Cmd("dropStash", <<Op("DropStash", "", "")>>,
                                   CursorStashIndex, "key")>>
               /\ (ask /\ key \in {"y", "Y"} /\ HasStash(stashes)) =>
                      IssuedOfKind(key, {"popStash", "dropStash"}) # <<>>
               /\ (ask /\ key \in {"n", "N", "esc"}) =>
                      /\ Issued(key) = <<>>
                      /\ ~r.a.stashes.confirmMode
                      /\ r.a.stashes.confirmAction = stashActionNone
                      /\ r.a.mode = viewStashes

\* the drop of the second stash is being confirmed
C11_Witness ==
    /\ mode = viewStashes
    /\ ~stashes.showHelp
    /\ stashes.confirmMode
    /\ stashes.confirmAction = stashActionDrop
    /\ stashes.cursor = 1
    /\ Len(stashes.stashes) = 2

\* C12: while the Stash-Diff view is active no key but ctrl+c issues any
\* command; a key changes at most the cursor, the scroll offset, the
\* hunk-detail flag and the help flag of the Stash-Diff view, or leaves the
\* view for the Stashes view.
C12_StashDiffReadOnly ==
    mode = viewStashDiff =>
        \A key \in AllKeys :
            LET r == AppUpdateKey(App, key, NoRemotes)
                dm == stashes.diffModel
            IN IF key = "ctrl+c" THEN r.cmds = <<QuitCmd>> /\ r.a = App
               ELSE /\ r.cmds = <<>>
                    /\ r.a.mode \in {viewStashDiff, viewStashes}
                    /\ [r.a EXCEPT !.mode = mode,
                                   !.stashes.diffModel.cursor = dm.cursor,
                                   !.stashes.diffModel.scrollOffset = dm.scrollOffset,
                                   !.stashes.diffModel.viewingHunk = dm.viewingHunk,
                                   !.stashes.diffModel.showHelp = dm.showHelp] = App

\* the second hunk of a stash's diff is open in the Stash-Diff view
C12_Witness ==
    /\ mode = viewStashDiff
    /\ Len(stashes.diffModel.hunks) = 2
    /\ stashes.diffModel.cursor = 1
    /\ stashes.diffModel.viewingHunk

----------------------------------------------------------------------------
(* Push *)

\* the Status view is in its navigation mode
StatusNavigating ==
    /\ mode = viewStatus
    /\ ~status.showHelp
    /\ status.confirmMode = confirmNone
    /\ status.stashMode = stashNone
    /\ ~status.commitMode

PushKinds == {"push", "pushSetUpstream"}

\* C13: on the push key in the Status view, a branch with an upstream and
\* ahead of it opens the y/n confirmation, and y then issues the push; with
\* no upstream and no remote the error "no remotes configured" is set, no
\* confirmation opens and nothing is issued; with no upstream and remotes the
\* y/n confirmation opens, and y then issues the push with upstream against
\* the first remote.  In either confirmation no key but y issues a push.
C13_PushKey ==
    /\ StatusNavigating =>
        \A remotes \in PushRemotes :
            LET r == AppUpdateKey(App, Keys.Push, remotes)
                bs == status.branchStatus
                yes == AppUpdateKey(r.a, "y", remotes)
            IN /\ (bs.Remote # "" /\ bs.Ahead > 0) =>
                      /\ r.cmds = <<>>
                      /\ r.a.status.confirmMode = confirmPush
                      /\ yes.cmds = <<Cmd("push", <<Op("Push", "", "")>>, <<>>, "key")>>
                      /\ yes.a.status.confirmMode = confirmNone
               /\ (bs.Remote = "" /\ ~remotes.err /\ remotes.list = <<>>) =>
                      /\ r.cmds = <<>>
                      /\ r.a.status.err = "no remotes configured"
                      /\ r.a.status.confirmMode = confirmNone
                      /\ r.a = [App EXCEPT !.status.err = "no remotes configured",
                                           !.status.lastKey = ""]
               /\ (bs.Remote = "" /\ ~remotes.err /\ remotes.list # <<>>) =>
                      /\ r.cmds = <<>>
                      /\ r.a.status.confirmMode = confirmPushNew
                      /\ yes.cmds =
                             <<Cmd("pushSetUpstream",
                                   <<Op("PushSetUpstream", remotes.list[1], "")>>,
                                   <<>>, "key")>>
                      /\ yes.a.status.confirmMode = confirmNone
    /\ (mode = viewStatus /\ ~status.showHelp
        /\ status.confirmMode \in {confirmPush, confirmPushNew}) =>
        \A key \in AllKeys \ {"y", "Y"} :
            /\ IssuedOfKind(key, PushKinds) = <<>>
            /\ key \in {"n", "N", "esc"} =>
                   AppUpdateKey(App, key, NoRemotes).a.status.confirmMode = confirmNone

\* the push with upstream against the first remote has been issued
C13_Witness ==
    \E i \in 1..Len(pending) :
        /\ pending[i].kind = "pushSetUpstream"
        /\ pending[i].ops[1].path = "origin"

----------------------------------------------------------------------------
(* The help overlay *)

CloseHelpKeys == {Keys.Help, "esc", Keys.Quit}

\* what a view's Update returns for a key while its help overlay is shown
HelpSwallows(m, key) ==
    R(IF key \in CloseHelpKeys THEN [m EXCEPT !.showHelp = FALSE] ELSE m, NoCmd)

\* C14: in each of the five view models, while the help flag is set, a key
\* delivered to the view other than Help, Esc and Quit leaves the whole view
\* state unchanged and issues no command; Help, Esc and Quit clear the help
\* flag, change nothing else and issue no command (Quit does not quit).
C14_HelpSwallowsKeys ==
    \A key \in AllKeys :
        /\ status.showHelp =>
               StatusUpdateKey(status, key, NoRemotes) = HelpSwallows(status, key)
        /\ diff.showHelp => DiffUpdateKey(diff, key) = HelpSwallows(diff, key)
        /\ branches.showHelp => BranchesUpdateKey(branches, key) = HelpSwallows(branches, key)
        /\ stashes.showHelp => StashesUpdateKey(stashes, key) = HelpSwallows(stashes, key)
        /\ stashes.diffModel.showHelp =>
               StashDiffUpdateKey(stashes.diffModel, key)
                   = HelpSwallows(stashes.diffModel, key)

\* the help overlay is shown over the hunk list of a stash's diff
C14_Witness ==
    /\ mode = viewStashDiff
    /\ stashes.diffModel.showHelp
    /\ Len(stashes.diffModel.hunks) = 2
    /\ ~stashes.diffModel.viewingHunk

----------------------------------------------------------------------------
(* Leaving a view *)

\* the keys the shell takes for leaving a view
LeaveKeys == {Keys.Back, "left", "esc", Keys.Quit}

\* the active view is in a sub-mode that takes the keys for itself: help
\* shown, a confirmation pending, a text input focused
ViewBlocking ==
    IF mode \in DiffViews THEN diff.showHelp \/ diff.confirmMode
    ELSE IF mode = viewBranches
    THEN branches.showHelp \/ branches.deleteConfirmMode
         \/ branches.forceDeleteMode \/ branches.inputMode
    ELSE IF mode = viewStashes THEN stashes.showHelp \/ stashes.confirmMode
    ELSE IF mode = viewStashDiff THEN stashes.diffModel.showHelp
    ELSE FALSE

\* C15: in a view other than Status, a leave key pressed while the view is
\* in a blocking sub-mode keeps the active view and is delivered to the view.
C15_LeaveOnlyWhenNotBlocking ==
    (mode # viewStatus /\ ViewBlocking) =>
        \A key \in LeaveKeys :
            LET r == AppUpdateKey(App, key, NoRemotes)
            IN /\ r.a.mode = mode
               /\ r = updateCurrentViewKey(App, key, NoRemotes)

\* C16: while the help overlay of the Status view is shown, no key but
\* ctrl+c changes the active view or creates another view, and a key other
\* than Help, Esc and Quit changes nothing and issues nothing.
C16_StatusHelpBlocksViews ==
    (mode = viewStatus /\ status.showHelp) =>
        \A key \in ModelledKeys \ {"ctrl+c"} :
            LET r == AppUpdateKey(App, key, NoRemotes)
            IN /\ r.a.mode = viewStatus
               /\ r.a.diff = diff
               /\ r.a.branches = branches
               /\ r.a.stashes = stashes
               /\ r.cmds = <<>>
               /\ key \notin CloseHelpKeys => r.a = App

----------------------------------------------------------------------------
(* Esc in a confirmation or a text input *)

\* the active view has a confirmation or a text input open, under no help
SubModeOpen ==
    IF mode = viewStatus
    THEN ~status.showHelp
         /\ (status.confirmMode # confirmNone \/ status.stashMode # stashNone
             \/ status.commitMode)
    ELSE IF mode \in DiffViews THEN ~diff.showHelp /\ diff.confirmMode
    ELSE IF mode = viewBranches
    THEN ~branches.showHelp
         /\ (branches.deleteConfirmMode \/ branches.forceDeleteMode \/ branches.inputMode)
    ELSE IF mode = viewStashes THEN ~stashes.showHelp /\ stashes.confirmMode
    ELSE FALSE

\* the application with the active view's confirmation and text input
\* closed, their buffers and pending actions dropped (with the error the
\* force-delete confirmation shows), and nothing else changed
SubModeCancelled ==
    [App EXCEPT
        !.status = IF mode # viewStatus THEN @
                   ELSE [@ EXCEPT !.confirmMode = confirmNone, !.confirmInput = <<>>,
                                  !.pendingPushRemote = "",
                                  !.pendingStashMode = stashNone,
                                  !.pendingStashMessage = <<>>,
                                  !.stashMode = stashNone, !.stashInput = <<>>,
                                  !.commitMode = FALSE, !.commitInput = <<>>],
        !.diff = IF mode \notin DiffViews THEN @
                 ELSE [@ EXCEPT !.confirmMode = FALSE, !.confirmInput = <<>>],
        !.branches = IF mode # viewBranches THEN @
                     ELSE [@ EXCEPT !.deleteConfirmMode = FALSE, !.deleteInput = <<>>,
                                    !.forceDeleteMode = FALSE,
                                    !.pendingDeleteBranch =
                                        IF branches.forceDeleteMode THEN <<>> ELSE @,
                                    !.err = IF branches.forceDeleteMode THEN NoErr ELSE @,
                                    !.inputMode = FALSE, !.branchInput = <<>>],
        !.stashes = IF mode # viewStashes THEN @
                    ELSE [@ EXCEPT !.confirmMode = FALSE,
                                   !.confirmAction = stashActionNone]]

\* C17: Esc pressed while a confirmation or a text input is open issues no
\* command, drops the typed buffer and the pending action, leaves the cursor,
\* the selection and the item list as they are, and keeps the same view
\* active, back in its navigation mode.
C17_EscCancels ==
    SubModeOpen =>
        LET r == AppUpdateKey(App, "esc", NoRemotes)
        IN /\ r.cmds = <<>>
           /\ r.a.mode = mode
           /\ r.a = SubModeCancelled

----------------------------------------------------------------------------
(* The two-key Top sequence *)

\* the views with a two-key Top sequence
TopViews == {viewStatus, viewFileDiff, viewFullDiff, viewBranches, viewStashes}

\* the model of the active view
ActiveView(a) ==
    IF a.mode = viewStatus THEN a.status
    ELSE IF a.mode \in DiffViews THEN a.diff
    ELSE IF a.mode = viewBranches THEN a.branches
    ELSE a.stashes

\* application a with the pending prefix of its active view set to k
WithLastKey(a, k) ==
    IF a.mode = viewStatus THEN [a EXCEPT !.status.lastKey = k]
    ELSE IF a.mode \in DiffViews THEN [a EXCEPT !.diff.lastKey = k]
    ELSE IF a.mode = viewBranches THEN [a EXCEPT !.branches.lastKey = k]
    ELSE [a EXCEPT !.stashes.lastKey = k]

\* the active view shows its list and takes navigation keys
ListNavigating ==
    /\ mode \in TopViews
    /\ ~ViewBlocking
    /\ mode = viewStatus => StatusNavigating
    /\ mode \in DiffViews => ~diff.viewingHunk

Press(a, key) == AppUpdateKey(a, key, NoRemotes).a

\* C18: in the lists of the Status, Diff, Branches and Stashes views, with
\* no prefix pending, a first Top press only arms the prefix, the next one
\* puts the cursor on index 0 and resets the prefix, and a further single
\* Top press only arms the prefix again: pressed after a move down it leaves
\* the cursor where the move put it.
C18_TopTwice ==
    (ListNavigating /\ ActiveView(App).lastKey = "") =>
        LET a1 == Press(App, Keys.Top)
            a2 == Press(a1, Keys.Top)
            a3 == Press(a2, Keys.Top)
            down == Press(a2, Keys.Down)
            a4 == Press(down, Keys.Top)
        IN /\ a1 = WithLastKey(App, Keys.Top)
           /\ a2.mode = mode
           /\ ActiveView(a2).cursor = 0
           /\ ActiveView(a2).lastKey = ""
           /\ a3 = WithLastKey(a2, Keys.Top)
           /\ a4 = WithLastKey(down, Keys.Top)

\* the first Top press has been made on the second stash
C18_Witness ==
    /\ mode = viewStashes
    /\ ListNavigating
    /\ stashes.cursor = 1
    /\ stashes.lastKey = Keys.Top

\* a Top press that takes a from a pending prefix to a jump
TopFires(a, b) ==
    /\ a.mode \in TopViews
    /\ b.mode = a.mode
    /\ ActiveView(a).lastKey = Keys.Top
    /\ ActiveView(b).lastKey = ""

\* C19: a Top press that follows a key event other than Top never fires the
\* jump, whatever that key did: moved, scrolled a hunk, closed a hunk,
\* switched the view.
C19_TopOnlyAfterTop ==
    \A key \in ModelledKeys \ {Keys.Top, "ctrl+c"} :
        LET a1 == Press(App, key)
        IN ~TopFires(a1, Press(a1, Keys.Top))

----------------------------------------------------------------------------
(* The status refresh *)

\* the items of one section of a snapshot, in the snapshot's order
SectionItems(paths, section) == [i \in 1..Len(paths) |-> Item(paths[i], section)]

\* C20: a status refresh result applied to the Status view leaves the
\* selection empty and visual mode off, makes the item list the staged, then
\* the unstaged, then the untracked files of the new snapshot, and leaves the
\* cursor within [0, max(0, L - 1)] for the new list length L.
C20_RefreshResets ==
    mode = viewStatus =>
        \A st \in ESelect.statuses, bs \in ESelect.branchStatuses :
            LET m == updateCurrentViewMsg(App, StatusMsg(st, bs)).status
                L == Len(st.Staged) + Len(st.Unstaged) + Len(st.Untracked)
            IN /\ m.selected = {}
               /\ ~m.visualMode
               /\ m.items = SectionItems(st.Staged, "staged")
                               \o SectionItems(st.Unstaged, "unstaged")
                               \o SectionItems(st.Untracked, "untracked")
               /\ Len(m.items) = L
               /\ m.cursor >= 0
               /\ m.cursor <= Max(0, L - 1)
               /\ m.status = st

\* a refresh is in flight while a visual selection ends on the third file
C20_Witness ==
    /\ mode = viewStatus
    /\ status.visualMode
    /\ status.cursor = 2
    /\ Cardinality(status.selected) >= 2
    /\ \E i \in 1..Len(pending) : pending[i].kind = "refreshStatus"

----------------------------------------------------------------------------
(* Entering and leaving visual mode *)

\* C21: in the Status view, entering visual mode at cursor c and moving down
\* twice, with at least c + 3 items, selects exactly {c, c+1, c+2}; in visual
\* mode the visual key, Quit and Esc each empty the selection and leave
\* visual mode, and issue nothing: the program does not quit.
C21_VisualEnterLeave ==
    /\ (StatusNavigating /\ ~status.visualMode
        /\ status.cursor + 3 <= Len(status.items)) =>
           LET c == status.cursor
               a3 == Press(Press(Press(App, Keys.Visual), Keys.Down), Keys.Down)
           IN /\ a3.status.visualMode
              /\ a3.status.selected = {c, c + 1, c + 2}
              /\ a3.status.cursor = c + 2
    /\ (StatusNavigating /\ status.visualMode) =>
           \A key \in {Keys.Visual, Keys.Quit, "esc"} :
               LET r == AppUpdateKey(App, key, NoRemotes)
               IN /\ r.cmds = <<>>
                  /\ r.a.status.selected = {}
                  /\ ~r.a.status.visualMode
                  /\ ~r.a.status.quitting
                  /\ r.a.mode = viewStatus

\* visual mode entered on the first of three files and moved down twice
C21_Witness ==
    /\ StatusNavigating
    /\ status.visualMode
    /\ status.visualStart = 0
    /\ status.cursor = 2
    /\ status.selected = {0, 1, 2}

----------------------------------------------------------------------------
(* A diff of one hunk *)

\* C22: whenever a diff result applied to the Diff view, or to the
\* Stash-Diff view, leaves exactly one hunk in the view's (filtered) hunk
\* list, the view is in hunk detail on that hunk right after.
C22_SingleHunkOpens ==
    /\ mode \in DiffViews =>
           \A d \in EDetail.diffs, ut \in EDetail.untracked :
               LET m == updateCurrentViewMsg(App, CombinedDiffMsg(d, ut)).diff
               IN Len(m.hunks) = 1 => m.viewingHunk /\ m.cursor = 0
    /\ mode = viewStashDiff =>
           \A d \in EDetail.stashDiffs :
               LET m == updateCurrentViewMsg(App, StashDiffMsg(d)).stashes.diffModel
               IN Len(m.hunks) = 1 => m.viewingHunk /\ m.cursor = 0

\* the File Diff view has opened the one hunk its filter lets through
C22_Witness ==
    /\ mode = viewFileDiff
    /\ Len(currentFiles) = 1
    /\ Len(GetAllHunksCombined(diff.diff)) = 2
    /\ Len(diff.hunks) = 1
    /\ diff.viewingHunk

----------------------------------------------------------------------------
(* parseDiff and GeneratePatch on every short text *)

\* the texts of at most MaxLines lines
Texts == UNION {[1..n -> DiffLines] : n \in 1..MaxLines}

InitParse ==
    /\ InitApp
    /\ output \in Texts
    /\ parsed = Unparsed

NextParse == ParseOutput \/ MakePatch
SpecParse == InitParse /\ [][NextParse]_vars

\* C25: parseDiff returns a result for every text, the empty result for the
\* empty text, and never faults, whatever the order of file markers, header
\* lines, hunk markers and content lines
C25_ParseNeverFaults ==
    /\ parseDiff(output) # Fault
    /\ output = <<"">> => parseDiff(output) = Parsed(<<>>)

\* the contents of a hunk's lines
Contents(h) == [i \in 1..Len(h.Lines) |-> h.Lines[i].Content]

\* the hunks the current text was parsed into, each with the file owning it
ParsedHunks ==
    IF parsed.done /\ ~parsed.fault
    THEN UNION {{<<f, h>> : h \in 1..Len(parsed.Files[f].Hunks)} :
                    f \in 1..Len(parsed.Files)}
    ELSE {}

\* C23: re-parsing the patch generated for a parsed hunk H and its file gives
\* exactly one file with exactly one hunk, of H's header and H's line contents
C23_RoundTrip ==
    \A fh \in ParsedHunks :
        LET fd == parsed.Files[fh[1]]
            H == fd.Hunks[fh[2]]
            again == parseDiff(GeneratePatch(H, fd))
        IN /\ ~again.fault
           /\ Len(again.Files) = 1
           /\ Len(again.Files[1].Hunks) = 1
           /\ again.Files[1].Hunks[1].Header = H.Header
           /\ Contents(again.Files[1].Hunks[1]) = Contents(H)

\* the positions of the file markers of a text, in order
MarkerPositions(lines) ==
    SelectSeq([i \in 1..Len(lines) |-> i], LAMBDA i : IsFileMarker(lines[i]))

\* the section of the k-th file of a text: from its file marker up to the
\* next file marker or the end of the text
FileSection(lines, k) ==
    LET at == MarkerPositions(lines)
    IN SubSeq(lines, at[k], IF k < Len(at) THEN at[k + 1] - 1 ELSE Len(lines))

\* the headers and lines of the hunks from the i-th on, in order
RECURSIVE HunkBodiesFrom(_, _)
HunkBodiesFrom(hunks, i) ==
    IF i > Len(hunks) THEN <<>>
    ELSE <<hunks[i].Header>> \o Contents(hunks[i]) \o HunkBodiesFrom(hunks, i + 1)

\* the piece after a text's last newline is not one of its lines
WithoutFinalPiece(lines) ==
    IF lines # <<>> /\ lines[Len(lines)] = "" THEN SubSeq(lines, 1, Len(lines) - 1)
    ELSE lines

\* C24: the header lines of each parsed file followed by the header and lines
\* of each of its hunks, in order, are exactly the lines of the file's
\* section of the text
C24_Partition ==
    parsed.done /\ ~parsed.fault =>
        \A k \in 1..Len(parsed.Files) :
            WithoutFinalPiece(parsed.Files[k].Header
                                  \o HunkBodiesFrom(parsed.Files[k].Hunks, 1))
                = WithoutFinalPiece(FileSection(output, k))

----------------------------------------------------------------------------
(* The error of the Status view *)

\* the Status view holds an error, which View renders above the list
StatusErrorHeld(a) == a.status.err # NoErr

\* the results a successful status refresh may bring
RefreshResults ==
    {StatusMsg(st, bs) : st \in {NoStatus, Snap0, Snap1, Snap3},
                         bs \in {NoBranchStatus, BranchStatus("main", "origin/main", 1)}}

\* C26: once a failure has set the error of the Status view, some key or
\* some successful refresh leaves the view without the error
C26_ErrorDismissible ==
    StatusErrorHeld(App) =>
        \/ \E key \in ModelledKeys, remotes \in PushRemotes :
               ~StatusErrorHeld(AppUpdateKey(App, key, remotes).a)
        \/ \E msg \in RefreshResults : ~StatusErrorHeld(updateCurrentViewMsg(App, msg))

----------------------------------------------------------------------------
(* The stage/unstage toggle *)

\* the git call the specification gives the toggle of an item of a section
ToggleCallOf(section) == IF section = "staged" THEN "UnstageFile" ELSE "StageFile"

----------------------------------------------------------------------------
(* The cursor of every view stays within its list *)

NextCursor == KeyMsg(ECursor) \/ Complete(ECursor)
SpecCursor == Init /\ [][NextCursor]_vars

\* c lies in [0, max(0, L - 1)]
InList(c, L) == c >= 0 /\ c <= Max(0, L - 1)

\* the cursor of each of the five views lies within the view's list
CursorsInRange(a) ==
    /\ InList(a.status.cursor, Len(a.status.items))
    /\ InList(a.diff.cursor, Len(a.diff.hunks))
    /\ InList(a.branches.cursor, Len(a.branches.branches))
    /\ InList(a.stashes.cursor, Len(a.stashes.stashes))
    /\ InList(a.stashes.diffModel.cursor, Len(a.stashes.diffModel.hunks))

\* the keys that move a cursor
MoveKeys == {"j", "k", "g", "G", "up", "down"}

\* refresh results that bring a shorter list, or none
ShorterLists ==
    {StatusMsg(st, NoBranchStatus) : st \in {Snap0, Snap1}}
    \cup {CombinedDiffMsg(d, NoUntracked) : d \in {EmptyDiff, DiffUnstaged}}
    \cup {BranchesMsg(bl) : bl \in {<<>>, <<Branch(Main, FALSE)>>}}
    \cup {StashesMsg(sl) : sl \in {<<>>, <<Stash0>>}}
    \cup {StashDiffMsg(d) : d \in {EmptyDiff, DiffUnstaged}}

\* C28: in every reachable state the cursor of the Status, Diff, Branches,
\* Stashes and Stash-Diff views lies in [0, max(0, L - 1)] for the length L
\* of the view's list, and it still does after any cursor key, after any
\* refresh result that shortens the list, and after a cursor key following
\* such a result.
C28_CursorInRange ==
    /\ CursorsInRange(App)
    /\ \A key \in MoveKeys : CursorsInRange(Press(App, key))
    /\ \A msg \in ShorterLists :
           LET a == updateCurrentViewMsg(App, msg)
           IN /\ CursorsInRange(a)
              /\ \A key \in MoveKeys : CursorsInRange(Press(a, key))

\* the Stashes view with the cursor on the last of two stashes, while the
\* cursors of the Status view and of the Branches view are off the first item
C28_Witness ==
    /\ mode = viewStashes
    /\ stashes.cursor = 1 /\ Len(stashes.stashes) = 2
    /\ status.cursor = 2
    /\ branches.cursor = 1

----------------------------------------------------------------------------
(* The order of the hunks across a refresh *)

NextOrder == KeyMsg(EOrder) \/ Complete(EOrder)
SpecOrder == Init /\ [][NextOrder]_vars

\* how often x occurs in s
Occurrences(s, x) == Cardinality({i \in 1..Len(s) : s[i] = x})

\* a and b hold the same hunks, each as often
IsPermutation(a, b) ==
    /\ Len(a) = Len(b)
    /\ \A x \in SeqToSet(a) \cup SeqToSet(b) : Occurrences(a, x) = Occurrences(b, x)

\* the stable key as the specification words it: the file path with the
\* contents of the added and removed lines, or with the header when there
\* are none
StableKeyOf(h) ==
    LET changed == {i \in 1..Len(h.Lines) : h.Lines[i].Type # "context"}
    IN IF changed = {} THEN <<h.FilePath, "header", h.Header>>
       ELSE <<h.FilePath, "lines",
              Contents([h EXCEPT !.Lines = SelectSeq(h.Lines, LAMBDA l : l.Type # "context")])>>

\* the first place of a key in a list
FirstWithKey(s, k) == CHOOSE i \in 1..Len(s) : /\ StableKeyOf(s[i]) = k
                                                /\ \A j \in 1..(i - 1) : StableKeyOf(s[j]) # k

\* the fetched lists a refresh of the Diff view may bring
FetchedLists == {GetAllHunksCombined(d) : d \in EOrder.diffs}

\* C29 as worded: the result is a permutation of the fetched list in which
\* every hunk whose stable key is the key of some hunk of the previous list
\* comes before every other hunk, those hunks in the previous list's order
\* of their keys and the others in their fetched order
C29_KeepOrderByKey ==
    mode = viewFullDiff /\ Len(diff.hunks) > 0 =>
        \A new \in FetchedLists :
            LET out == keepHunkOrder(diff, new)
                oldKeys == {StableKeyOf(diff.hunks[i]) : i \in 1..Len(diff.hunks)}
                matched(h) == StableKeyOf(h) \in oldKeys
            IN /\ IsPermutation(out, new)
               /\ \A i, j \in 1..Len(out) :
                      i < j /\ matched(out[j]) =>
                          /\ matched(out[i])
                          /\ FirstWithKey(diff.hunks, StableKeyOf(out[i]))
                                 <= FirstWithKey(diff.hunks, StableKeyOf(out[j]))
               /\ SelectSeq(out, LAMBDA h : ~matched(h)) = SelectSeq(new, LAMBDA h : ~matched(h))

\* the rank of the hunk at place i among the hunks of s with its stable key
RankInKey(s, i) ==
    Cardinality({j \in 1..i : StableKeyOf(s[j]) = StableKeyOf(s[i])})

\* the place in s of the hunk of rank r among those with stable key k, or 0
PlaceOf(s, k, r) ==
    LET at == {i \in 1..Len(s) : StableKeyOf(s[i]) = k /\ RankInKey(s, i) = r}
    IN IF at = {} THEN 0 ELSE CHOOSE i \in at : TRUE

\* the previous hunk at place i is paired with the fetched hunk of the same
\* stable key and the same rank, when there is one
PairedPlace(old, new, i) == PlaceOf(new, StableKeyOf(old[i]), RankInKey(old, i))

\* the paired fetched hunks in the previous list's order, then the other
\* fetched hunks in their fetched order
PairedFirst(old, new) ==
    LET places == [i \in 1..Len(old) |-> PairedPlace(old, new, i)]
        paired == SelectSeq(places, LAMBDA p : p # 0)
        others == SelectSeq([j \in 1..Len(new) |-> j],
                            LAMBDA j : j \notin SeqToSet(paired))
    IN [k \in 1..Len(paired) |-> new[paired[k]]] \o [k \in 1..Len(others) |-> new[others[k]]]

\* C29, amended: the result is a permutation of the fetched list; first come,
\* in the previous list's order, the fetched hunks paired with a previous
\* hunk, the r-th previous hunk of a stable key being paired with the r-th
\* fetched hunk of that key; all other fetched hunks follow in their fetched
\* order, among them those whose key matches but whose rank has no partner
C29_KeepOrderPaired ==
    mode = viewFullDiff /\ Len(diff.hunks) > 0 =>
        \A new \in FetchedLists :
            LET out == keepHunkOrder(diff, new)
            IN /\ IsPermutation(out, new)
               /\ out = PairedFirst(diff.hunks, new)
               /\ DiffUpdateDiffMsg(diff, CombinedDiff(<<>>, <<FileDiff("b", FileHeader("b"), new)>>),
                                    NoUntracked).hunks = out

\* the Full Diff view listing, second and third, the two hunks that share a
\* stable key; a refresh may bring them in the other order, or one of them
C29_Witness ==
    /\ mode = viewFullDiff
    /\ Len(diff.hunks) = 3
    /\ StableKeyOf(diff.hunks[2]) = StableKeyOf(diff.hunks[3])
    /\ \E new \in FetchedLists : keepHunkOrder(diff, new) # new

----------------------------------------------------------------------------
(* Scrolling in hunk detail *)

NextScroll == KeyMsg(EScroll) \/ Resize(EScroll) \/ Complete(EScroll)
SpecScroll == Init /\ [][NextScroll]_vars

\* C30: whenever the Diff view shows the detail of an existing hunk, the
\* scroll offset lies in [0, max(0, lineCount - visibleLines)] for the lines
\* of that hunk and the present window height
C30_ScrollInRange ==
    (mode \in DiffViews /\ diff.viewingHunk /\ diff.cursor < Len(diff.hunks)) =>
        /\ diff.scrollOffset >= 0
        /\ diff.scrollOffset
               <= Max(0, Len(diff.hunks[diff.cursor + 1].Lines) - DiffVisibleLines(diff))

----------------------------------------------------------------------------
(* The filter of the Diff view *)

NextFilter == KeyMsg(EFilter) \/ Complete(EFilter)
SpecFilter == Init /\ [][NextFilter]_vars

\* the section a filter entry stands for
SectionOfFilter(f) ==
    IF f.Untracked THEN "untracked" ELSE IF f.ShowStaged THEN "staged" ELSE "unstaged"

\* a hunk is let through by a filter: its (file path, staged flag) is in the
\* allow-list, or it is an unstaged hunk of a listed untracked file
LetThrough(filters, h) ==
    \E i \in 1..Len(filters) :
        /\ filters[i].Path = h.FilePath
        /\ IF filters[i].Untracked THEN ~h.Staged ELSE filters[i].ShowStaged = h.Staged

\* every staged hunk of s comes before every unstaged one
StagedFirst(s) == \A i, j \in 1..Len(s) : (i < j /\ s[j].Staged) => s[i].Staged

\* the diff results applied to the Diff view
DiffResults == {CombinedDiffMsg(d, ut) : d \in EFilter.diffs, ut \in EFilter.untracked}

\* the filter on entry and the hunks after a refresh, but for their order
FilterHolds ==
    /\ mode = viewStatus =>
           \A key \in ModelledKeys :
               LET a == Press(App, key)
               IN a.mode = viewFileDiff =>
                      /\ a.diff.filterFiles = a.currentFiles
                      /\ Len(a.currentFiles) = Cardinality(EffectiveTargets)
                      /\ {<<f.Path, SectionOfFilter(f)>> : f \in SeqToSet(a.currentFiles)}
                             = {<<it.Path, it.Section>> : it \in EffectiveTargets}
    /\ mode \in DiffViews =>
           \A msg \in DiffResults :
               LET m == updateCurrentViewMsg(App, msg).diff
               IN IF Len(diff.filterFiles) > 0
                  THEN \A h \in SeqToSet(m.hunks) : LetThrough(diff.filterFiles, h)
                  ELSE IsPermutation(m.hunks, GetAllHunksCombined(msg.d))

\* C31 as worded: the filter of the Diff view entered from Status is the
\* (path, section) of each effective target; after every diff refresh every
\* hunk shown is let through by the filter; with an empty filter all hunks
\* of both sides are shown, staged hunks first
C31_FilterStagedFirst ==
    /\ FilterHolds
    /\ (mode \in DiffViews /\ Len(diff.filterFiles) = 0) =>
           \A msg \in DiffResults : StagedFirst(updateCurrentViewMsg(App, msg).diff.hunks)

\* C31, amended: the filter of the Diff view entered from Status is the
\* (path, section) of each effective target; after every diff refresh every
\* hunk shown is let through by the filter; with an empty filter all hunks
\* of both sides are shown, the staged ones first when the view held no hunk
\* before, and in the order kept from the previous list otherwise
C31_Filter ==
    /\ FilterHolds
    /\ (mode \in DiffViews /\ Len(diff.filterFiles) = 0) =>
           \A msg \in DiffResults :
               LET m == updateCurrentViewMsg(App, msg).diff
                   all == GetAllHunksCombined(msg.d)
               IN /\ Len(diff.hunks) = 0 => m.hunks = all /\ StagedFirst(m.hunks)
                  /\ Len(diff.hunks) > 0 /\ Len(all) > 0 => m.hunks = keepHunkOrder(diff, all)

\* the File Diff view entered on a selection of the unstaged file "b" and
\* the untracked file "c", showing a hunk of each while "b" also has a
\* staged hunk
C31_Witness ==
    /\ mode = viewFileDiff
    /\ {<<f.Path, SectionOfFilter(f)>> : f \in SeqToSet(diff.filterFiles)}
           = {<<"b", "unstaged">>, <<"c", "untracked">>}
    /\ diff.diff = DiffMixed
    /\ {h.FilePath : h \in SeqToSet(diff.hunks)} = {"b", "c"}

NextResize == KeyMsg(EResize) \/ Resize(EResize) \/ Complete(EResize)
SpecResize == Init /\ [][NextResize]_vars

\* the size a view has stored
StoredSize(m) == <<m.width, m.height>>

\* the views whose size AppModel.Update stores itself
StoredEverywhere(a) ==
    {StoredSize(a.status), StoredSize(a.diff), StoredSize(a.branches),
     StoredSize(a.stashes), StoredSize(a.log)}

\* the sizes the terminal takes
WindowSizes == EResize.sizes

NextRenumber == KeyMsg(ERenumber) \/ Complete(ERenumber)
SpecRenumber == Init /\ [][NextRenumber]_vars

\* the stash entry a yes would pop or drop: the one doPopStash and doDropStash
\* read under the cursor
EntryUnderCursor(m) ==
    IF m.cursor < Len(m.stashes) THEN <<m.stashes[m.cursor + 1]>> ELSE <<>>

\* C33: while a pop or drop confirmation stays open, the stash entry a yes
\* would act on stays the entry that was under the cursor when it was opened,
\* also when a stash list arrives in between
C33_SameStash ==
    [][(mode = viewStashes /\ stashes.confirmMode /\ stashes'.confirmMode)
           => EntryUnderCursor(stashes') = EntryUnderCursor(stashes)]_vars

NextPendingConfirm == KeyMsg(EPendingConfirm) \/ Complete(EPendingConfirm)
SpecPendingConfirm == Init /\ [][NextPendingConfirm]_vars

\* the confirmations whose yes acts on files: discard, and stash of files
FileConfirmOpen(m) ==
    \/ m.confirmMode = confirmDiscard
    \/ m.confirmMode = confirmStash /\ m.pendingStashMode = stashFiles

\* C34: while a discard or stash confirmation stays open, the items its yes
\* would act on stay the effective targets it was opened on, also when a
\* status refresh is applied in between
C34_SameTargets ==
    [][(mode = viewStatus /\ FileConfirmOpen(status) /\ FileConfirmOpen(status')
           /\ status'.confirmMode = status.confirmMode)
           => SeqToSet(getSelectedItems(status')) = SeqToSet(getSelectedItems(status))]_vars

NextStacked == KeyMsg(EStacked) \/ Complete(EStacked)
SpecStacked == Init /\ [][NextStacked]_vars

\* the sub-modes of the Branches view that are active
BranchesSubModes(m) ==
    {s \in {"showHelp", "inputMode", "deleteConfirmMode", "forceDeleteMode"} : m[s]}

\* C35: in the Branches view at most one of help overlay, new-branch input,
\* typed delete confirmation and force-delete confirmation is active, and no
\* key typed while the new-branch input or the typed delete confirmation is
\* open issues a force delete
C35_OneSubMode ==
    /\ Cardinality(BranchesSubModes(branches)) <= 1
    /\ (mode = viewBranches /\ (branches.inputMode \/ branches.deleteConfirmMode)) =>
           \A key \in LowerLetters \cup UpperLetters :
               IssuedOfKind(key, {"forceDeleteBranch"}) = <<>>

\* C36: every selected index of the Status view is the index of an item, and
\* with no item at all the view is neither in visual mode nor holding a
\* selection, the two ways a selection makes it blocking
C36_SelectionValid ==
    /\ \A i \in status.selected : i >= 0 /\ i < Len(status.items)
    /\ status.items = <<>> => (~status.visualMode /\ status.selected = {})

PushConfirms == {confirmPush, confirmPushNew}

\* the push key pressed on a branch that has an upstream and is not ahead
PushKeyNothingAhead(key) ==
    /\ key = Keys.Push
    /\ StatusNavigating
    /\ status.branchStatus.Remote # ""
    /\ status.branchStatus.Ahead = 0

\* the answer y to an open push confirmation
PushConfirmed(key) ==
    /\ key \in {"y", "Y"}
    /\ ~status.showHelp
    /\ status.confirmMode \in PushConfirms

\* C37 as written: in the Status view a push is issued by no key but a y that
\* answers a push confirmation
C37_PushOnlyConfirmed ==
    mode = viewStatus =>
        \A key \in AllKeys, remotes \in PushRemotes :
            LET r == AppUpdateKey(App, key, remotes)
            IN (\E i \in 1..Len(r.cmds) : r.cmds[i].kind \in PushKinds) => PushConfirmed(key)

\* C37: in the Status view a push is issued only by a y that answers a push
\* confirmation, or, as a plain push, by the push key on a branch that has an
\* upstream and is not ahead of it; a push confirmation is opened by no key
\* but the push key
C37_PushConfirmedOrNothingAhead ==
    mode = viewStatus =>
        \A key \in AllKeys, remotes \in PushRemotes :
            LET r == AppUpdateKey(App, key, remotes)
            IN /\ \A i \in 1..Len(r.cmds) :
                      /\ r.cmds[i].kind = "pushSetUpstream" => PushConfirmed(key)
                      /\ r.cmds[i].kind = "push" =>
                             PushConfirmed(key) \/ PushKeyNothingAhead(key)
               /\ (r.a.status.confirmMode \in PushConfirms
                   /\ status.confirmMode \notin PushConfirms) =>
                      key = Keys.Push /\ StatusNavigating

\* a plain push is on its way for a branch that is ahead of its upstream: it
\* was issued by the y
C37_Witness ==
    /\ mode = viewStatus
    /\ status.branchStatus.Ahead > 0
    /\ \E i \in 1..Len(pending) : pending[i].kind = "push"

NextEmptied == KeyMsg(EEmptied) \/ Complete(EEmptied)
SpecEmptied == Init /\ [][NextEmptied]_vars

\* C38: whenever the Diff view is in hunk detail, its hunk list is not empty
\* and the cursor is the index of one of its hunks
C38_DetailOnHunk ==
    (mode \in DiffViews /\ diff.viewingHunk) =>
        diff.hunks # <<>> /\ diff.cursor < Len(diff.hunks)

\* C39: for every hunk the Diff view lists, GetFileDiff answers the file the
\* hunk belongs to (the same path), or no file at all
C39_OwningFile ==
    mode \in DiffViews =>
        \A i \in 1..Len(diff.hunks) :
            LET fileDiff == GetFileDiff(diff.diff, diff.hunks[i])
            IN fileDiff.nil \/ fileDiff.Path = diff.hunks[i].FilePath

NextTicking == KeyMsg(ETicking) \/ Tick(ETicking) \/ Complete(ETicking)
SpecTicking == Init /\ [][NextTicking]_vars

\* C40: one tick timer is armed in every reachable state: the tick handler
\* arms exactly one whatever the active view and its sub-mode, and no key
\* arms any
C40_OneTick ==
    /\ ticks = 1
    /\ Armed(AppUpdateTick(App)) = 1
    /\ \A key \in AllKeys : Armed(AppUpdateKey(App, key, NoRemotes).cmds) = 0

\* a tick has fired in the Status view, its refresh is still on its way, and
\* the user has opened the help of the Branches view since
C40_Witness ==
    /\ mode = viewBranches
    /\ branches.showHelp
    /\ \E i \in 1..Len(pending) : pending[i].by = "tick"
    /\ ticks = 1

====
